---------------------------- MODULE Spec2Model ----------------------------
(***************************************************************************)
(* MiniCrm backend: the role-scoped access-control layer (permission       *)
(* matrix, record scoping, request pipeline of the customer and lead       *)
(* routes), the login lockout of the credential service and the audit      *)
(* writer, as state machines over the relational store.                    *)
(*                                                                         *)
(* One action is one database statement together with the synchronous      *)
(* JavaScript that runs once its result is delivered (up to the next       *)
(* await).  Requests that express-rate-limit turns away (429) never reach  *)
(* a handler and are not part of the model.                                *)
(***************************************************************************)
EXTENDS Integers, Sequences, FiniteSets, TLC

VARIABLES
    users,          \* table users: id -> row
    customers,      \* table customers: id -> row (NoRow when absent)
    leads,          \* table leads: id -> row (NoRow when absent)
    nextId,         \* number of customer and lead rows inserted so far (ids are fresh)
    activities,     \* rows appended to table activities by the request being handled
    refreshTokens,  \* table refresh_tokens: sequence of rows
    now,            \* the clock, Date.now(), in ticks (what is signed in one tick is signed in one second)
    reqs,           \* the requests being handled: slot -> request context (req, res)
    call,           \* the last direct call of a pure rbac function and its result
    loginHist       \* per account: wrong-password attempts in a row, time of the last one

vars == <<users, customers, leads, nextId, activities, refreshTokens, now, reqs, call, loginHist>>

storeVars == <<customers, leads, nextId>>

-----------------------------------------------------------------------------
(* Bounds of the model *)

\* customer and lead rows inserted in one run (both tables together)
MaxRows == 2
\* last tick of the clock
MaxTime == 4
\* rows table refresh_tokens may hold before no further login is started
MaxTokens == 2

(* Program constants *)

\* config.security.maxLoginAttempts
MaxLoginAttempts == 5
\* config.security.lockTime, 30 minutes, in ticks of 15 minutes
LockTime == 2
\* config.jwt.expiresIn, 15 minutes, one tick
AccessTtl == 1
\* config.jwt.refreshExpiresIn, 7 days, shortened to 3 ticks
RefreshTtl == 3
\* default page size of the list endpoints
DefaultLimit == 20

-----------------------------------------------------------------------------
(* JavaScript values *)

\* null / undefined / SQL NULL
Null == "null"

\* values that are false in a condition (among the strings the model uses)
Falsy == {Null, ""}

Truthy(v) == v \notin Falsy

\* a || b
Or(a, b) == IF Truthy(a) THEN a ELSE b

-----------------------------------------------------------------------------
(* middleware/rbac.js: the permission matrix *)

Roles == {"admin", "manager", "sales_rep"}

Resources == {"customers", "leads", "users", "teams", "activities", "reports"}

Crud == {"create", "read", "update", "delete"}

ROLE_PERMISSIONS ==
    [admin |->
        [customers |-> Crud, leads |-> Crud, users |-> Crud, teams |-> Crud,
         activities |-> Crud, reports |-> {"read", "export"}],
     manager |->
        [customers |-> Crud, leads |-> Crud, users |-> {"read"},
         teams |-> {"read", "update"}, activities |-> Crud,
         reports |-> {"read", "export"}],
     sales_rep |->
        [customers |-> {"create", "read", "update"},
         leads |-> {"create", "read", "update"}, users |-> {"read"},
         teams |-> {"read"}, activities |-> {"create", "read", "update"},
         reports |-> {"read"}]]

\* Properties every object literal inherits from Object.prototype (the two the
\* model's inputs name): obj["constructor"] is the function Object,
\* obj["toString"] the function toString.
ObjectPrototypeKeys == {"constructor", "toString"}

FunctionName(key) == IF key = "constructor" THEN "Object" ELSE key

\* A JavaScript value met while hasPermission walks the matrix:
\* kind "row" is ROLE_PERMISSIONS[a]; "array" is ROLE_PERMISSIONS[a][b];
\* "function" is the inherited function named a; "string" is the string a.
JSValue(kind, a, b) == [kind |-> kind, a |-> a, b |-> b]

Undefined == JSValue("undefined", Null, Null)

\* obj[key] for the objects hasPermission reads
GetProperty(obj, key) ==
    CASE obj.kind = "matrix" ->
            IF key \in DOMAIN ROLE_PERMISSIONS THEN JSValue("row", key, Null)
            ELSE IF key \in ObjectPrototypeKeys THEN JSValue("function", FunctionName(key), Null)
            ELSE Undefined
      [] obj.kind = "row" ->
            IF key \in DOMAIN ROLE_PERMISSIONS[obj.a] THEN JSValue("array", obj.a, key)
            ELSE IF key \in ObjectPrototypeKeys THEN JSValue("function", FunctionName(key), Null)
            ELSE Undefined
      [] obj.kind = "function" ->
            IF key = "name" THEN JSValue("string", obj.a, Null)
            ELSE IF key \in ObjectPrototypeKeys THEN JSValue("function", FunctionName(key), Null)
            ELSE Undefined
      [] OTHER -> Undefined

\* value.includes(x): Array.prototype.includes on an array,
\* String.prototype.includes (substring test) on a string; any other value
\* has no method includes and the call throws a TypeError.
Includes(value, x) ==
    CASE value.kind = "array" ->
            IF x \in ROLE_PERMISSIONS[value.a][value.b] THEN "true" ELSE "false"
      [] value.kind = "string" ->
            IF x = value.a \/ x = "" THEN "true" ELSE "false"
      [] OTHER -> "TypeError"

NoUser == [id |-> Null, role |-> Null, teamId |-> Null]

\* "true", "false", or "TypeError" when the call throws
hasPermission(user, resource, permission) ==
    IF user = NoUser \/ ~Truthy(user.role) THEN "false"
    ELSE LET rolePermissions == GetProperty(JSValue("matrix", Null, Null), user.role)
         IN  IF rolePermissions = Undefined THEN "false"
             ELSE LET resourcePermissions == GetProperty(rolePermissions, resource)
                  IN  IF resourcePermissions = Undefined THEN "false"
                      ELSE Includes(resourcePermissions, permission)

-----------------------------------------------------------------------------
(* middleware/rbac.js: record scoping *)

NoRecord == [ownerId |-> Null, teamId |-> Null, assignedTo |-> Null]

\* variants of canAccessRecord a slip would produce
canAccessRecordTeamOnly(user, record) ==
    IF user = NoUser \/ record = NoRecord THEN FALSE
    ELSE IF user.role = "admin" THEN TRUE
    ELSE IF user.role = "manager" THEN record.teamId = user.teamId
    ELSE record.ownerId = user.id \/ record.assignedTo = user.id

canAccessRecordNoAdmin(user, record) ==
    IF user = NoUser \/ record = NoRecord THEN FALSE
    ELSE IF user.role = "manager" /\ record.teamId = user.teamId THEN TRUE
    ELSE IF record.ownerId = user.id THEN TRUE
    ELSE IF record.assignedTo = user.id THEN TRUE
    ELSE FALSE

canAccessRecordTeamMates(user, record) ==
    IF user = NoUser \/ record = NoRecord THEN FALSE
    ELSE IF user.role = "admin" THEN TRUE
    ELSE IF record.teamId = user.teamId THEN TRUE
    ELSE IF record.ownerId = user.id THEN TRUE
    ELSE IF record.assignedTo = user.id THEN TRUE
    ELSE FALSE

canAccessRecordOwnerOnly(user, record) ==
    IF user = NoUser \/ record = NoRecord THEN FALSE
    ELSE IF user.role = "admin" THEN TRUE
    ELSE IF user.role = "manager" /\ record.teamId = user.teamId THEN TRUE
    ELSE IF record.ownerId = user.id THEN TRUE
    ELSE FALSE

canAccessRecord(user, record) ==
    IF user = NoUser \/ record = NoRecord THEN FALSE
    ELSE IF user.role = "admin" THEN TRUE
    ELSE IF user.role = "manager" /\ record.teamId = user.teamId THEN TRUE
    ELSE IF record.ownerId = user.id THEN TRUE
    ELSE IF record.assignedTo = user.id THEN TRUE
    ELSE FALSE

\* A filter object: the two keys buildWhereClause reads (Null: key absent).
\* NullFilter is the value null, EmptyFilter the object {}.
NullFilter == [isNull |-> TRUE, ownerId |-> Null, teamId |-> Null]

EmptyFilter == [isNull |-> FALSE, ownerId |-> Null, teamId |-> Null]

\* variant of getDataFilter that scopes a sales rep by team
getDataFilterByTeam(user) ==
    IF user = NoUser THEN NullFilter
    ELSE IF user.role = "admin" THEN EmptyFilter
    ELSE [EmptyFilter EXCEPT !.teamId = user.teamId]

getDataFilter(user) ==
    IF user = NoUser THEN NullFilter
    ELSE IF user.role = "admin" THEN EmptyFilter
    ELSE IF user.role = "manager" THEN [EmptyFilter EXCEPT !.teamId = user.teamId]
    ELSE [EmptyFilter EXCEPT !.ownerId = user.id]

\* The conditions buildWhereClause adds to the caller's WHERE clause, as the
\* predicate a row must satisfy: a key is used only when its value is truthy.
buildWhereClause(filter, row) ==
    /\ (Truthy(filter.ownerId) => row.ownerId = filter.ownerId)
    /\ (Truthy(filter.teamId) => row.teamId = filter.teamId)

-----------------------------------------------------------------------------
(* models/database.js: the tables *)

\* SQL NULL in the integer column users.lockUntil (the clock starts at 1)
NullTime == 0

UserIds == {"1", "2", "3", "4", "5", "6"}

\* The users of the model: those of utils/seed.js with the admin moved to
\* team-2, a second sales rep in team-1, a manager without a team and a
\* deactivated sales rep.
UserRow(id, email, role, teamId, isActive) ==
    [id |-> id, email |-> email, password |-> "right", role |-> role,
     teamId |-> teamId, isActive |-> isActive,
     loginAttempts |-> 0, lockUntil |-> NullTime, lastLoginAt |-> NullTime]

InitUsers ==
    [id \in UserIds |->
        CASE id = "1" -> UserRow(id, "admin@crm.com", "admin", "team-2", TRUE)
          [] id = "2" -> UserRow(id, "john@crm.com", "sales_rep", "team-1", TRUE)
          [] id = "3" -> UserRow(id, "sarah@crm.com", "manager", "team-1", TRUE)
          [] id = "4" -> UserRow(id, "mike@crm.com", "sales_rep", "team-1", TRUE)
          [] id = "5" -> UserRow(id, "nora@crm.com", "manager", Null, TRUE)
          [] OTHER    -> UserRow(id, "emma@crm.com", "sales_rep", "team-1", FALSE)]

\* the columns authenticate selects into req.user
Principal(row) == [id |-> row.id, role |-> row.role, teamId |-> row.teamId]

RowIds == 1..MaxRows

\* A customer or lead row: the columns the scoping layer and the caller's
\* filters read.  customerId is 0 in a customer row.
NoRow == [ownerId |-> Null, teamId |-> Null, assignedTo |-> Null, status |-> Null, customerId |-> 0]

\* the columns requireRecordAccess selects
AccessColumns(row) ==
    IF row = NoRow THEN NoRecord
    ELSE [ownerId |-> row.ownerId, teamId |-> row.teamId, assignedTo |-> row.assignedTo]

TableOf(resourceType) == IF resourceType = "customer" THEN customers ELSE leads

\* SELECT ... WHERE id = ?
SelectById(table, id) == IF id \in DOMAIN table THEN table[id] ELSE NoRow

-----------------------------------------------------------------------------
(* Inputs of the direct calls of the rbac functions *)

FnUsers ==
    {NoUser} \cup
    [id : {"2", "3"}, role : Roles \cup {"guest", "constructor", Null},
     teamId : {"team-1", "team-2", Null}]

FnRecords ==
    {NoRecord} \cup
    [ownerId : {"2", "3", "4"}, teamId : {"team-1", "team-2", Null},
     assignedTo : {"2", "3", "4", Null}]

FnResources == Resources \cup {"invoices", "name", "constructor"}

FnPermissions == Crud \cup {"export", "approve", "Object"}

-----------------------------------------------------------------------------
(* routes/customers.js, routes/leads.js: the routes and their middleware chains *)

Route(method, path, resource, permission, resourceType, kind) ==
    [method |-> method, path |-> path, resource |-> resource,
     permission |-> permission, resourceType |-> resourceType, kind |-> kind]

NoRoute == Route(Null, Null, Null, Null, Null, Null)

CustomerRoutes ==
    {Route("GET", "/customers", "customers", "read", "customer", "list"),
     Route("GET", "/customers/:id", "customers", "read", "customer", "get"),
     Route("POST", "/customers", "customers", "create", "customer", "create"),
     Route("PUT", "/customers/:id", "customers", "update", "customer", "update"),
     Route("DELETE", "/customers/:id", "customers", "delete", "customer", "delete")}

LeadRoutes ==
    {Route("GET", "/leads", "leads", "read", "lead", "list"),
     Route("GET", "/leads/customer/:customerId", "leads", "read", "lead", "listByCustomer"),
     Route("GET", "/leads/:id", "leads", "read", "lead", "get"),
     Route("POST", "/leads", "leads", "create", "lead", "create"),
     Route("PUT", "/leads/:id", "leads", "update", "lead", "update"),
     Route("DELETE", "/leads/:id", "leads", "delete", "lead", "delete")}

Routes == CustomerRoutes \cup LeadRoutes

ListKinds == {"list", "listByCustomer"}

SingleRecordKinds == {"get", "update", "delete"}

(* The inputs of a request *)

\* the Authorization header: none, a malformed or wrongly signed token, an
\* expired token, or a valid access token of a user
NoHeader == [kind |-> "none", userId |-> Null]

\* the id in a token whose user is not in the table
MissingUserId == "9"

AuthHeaders ==
    {NoHeader, [kind |-> "invalid", userId |-> Null], [kind |-> "expired", userId |-> Null]}
    \cup {[kind |-> "valid", userId |-> u] : u \in UserIds \cup {MissingUserId}}

\* req.body: valid is the verdict of the route's express-validator rules;
\* Null is an absent key.
AssignChoices == {Null, "2", "3"}

StatusChoices == {Null, "inactive"}

Body(valid, assignedTo, status, customerId) ==
    [valid |-> valid, assignedTo |-> assignedTo, status |-> status, customerId |-> customerId]

NoBody == Body(FALSE, Null, Null, 0)

CustomerBodies ==
    {NoBody} \cup {Body(TRUE, a, s, 0) : a \in AssignChoices, s \in StatusChoices}

LeadBodies ==
    {NoBody} \cup {Body(TRUE, a, Null, c) : a \in AssignChoices, c \in RowIds}

BodiesOf(resourceType) == IF resourceType = "customer" THEN CustomerBodies ELSE LeadBodies

\* req.query of the list endpoints (page and limit keep their defaults)
Query(search, status, customerId) ==
    [search |-> search, status |-> status, customerId |-> customerId]

NoQuery == Query(FALSE, Null, 0)

CustomerQueries == {Query(s, st, 0) : s \in BOOLEAN, st \in {Null, "inactive"}}

LeadQueries == {Query(s, st, c) : s \in BOOLEAN, st \in {Null, "inactive"}, c \in {0} \cup RowIds}

(* The context of a request: req and res *)

NoToken == [userId |-> Null, iat |-> 0, exp |-> 0]

NoLogin == [email |-> Null, password |-> Null]

\* what is known of an account's wrong-password attempts when a login arrives
NoStreak == [wrong |-> 0, at |-> 0]

IdleReq ==
    [pc |-> "idle", route |-> NoRoute, header |-> NoHeader, user |-> NoUser,
     id |-> 0, record |-> NoRecord, dataFilter |-> NullFilter, query |-> NoQuery,
     body |-> NoBody, existing |-> NoRow, updateData |-> NoRow,
     login |-> NoLogin, presented |-> NoToken, checkedAt |-> 0, streak |-> NoStreak,
     attempts |-> 0, lockUntil |-> NullTime, accessToken |-> NoToken, refreshToken |-> NoToken,
     status |-> 0, message |-> Null, code |-> Null, data |-> {},
     trail |-> <<>>, written |-> 0, logged |-> 0, cascaded |-> {}]

Slots == {"a", "b"}

\* the slot of the specifications that handle one request at a time
Main == "a"

\* res.status(status).json({message, ...}): the request is answered
Respond(ctx, status, message) ==
    [ctx EXCEPT !.pc = "done", !.status = status, !.message = message]

\* next(): the chain goes on with the handler named pc
Enter(ctx, pc) == [ctx EXCEPT !.pc = pc, !.trail = Append(@, pc)]

NoOtherRequest(q) == \A p \in Slots \ {q} : reqs[p].pc \in {"idle", "done"}

\* The answer is sent and the context dropped.  activities keeps the rows of
\* the requests in flight only: no route reads the table.
Close(q) ==
    /\ reqs[q].pc = "done"
    /\ reqs' = [reqs EXCEPT ![q] = IdleReq]
    /\ activities' = IF NoOtherRequest(q) THEN <<>> ELSE activities
    /\ UNCHANGED <<users, customers, leads, nextId, refreshTokens, now, call, loginHist>>

\* the users whose POST requests the model enumerates
Creators == {"1", "2"}

-----------------------------------------------------------------------------
(* middleware/auth.js *)

\* jwt.verify(token, config.jwt.secret): the name of the error it throws
VerifyAccessToken(header) ==
    CASE header.kind = "expired" -> "TokenExpiredError"
      [] header.kind = "invalid" -> "JsonWebTokenError"
      [] OTHER -> "none"

\* variant of the catch clause that answers every jwt error the same way
AuthErrorConflated(ctx, name) == Respond(ctx, 401, "Invalid token")

\* catch (jwtError)
AuthError(ctx, name) ==
    IF name = "TokenExpiredError"
    THEN [Respond(ctx, 401, "Token expired") EXCEPT !.code = "TOKEN_EXPIRED"]
    ELSE IF name = "JsonWebTokenError" THEN Respond(ctx, 401, "Invalid token")
    ELSE Respond(ctx, 500, "Authentication error")

\* variant of SelectActiveUser without the condition isActive = 1
SelectAnyUser(userId) ==
    IF userId \in DOMAIN users THEN Principal(users[userId]) ELSE NoUser

\* SELECT ... FROM users WHERE id = ? AND isActive = 1
SelectActiveUser(userId) ==
    IF userId \in DOMAIN users /\ users[userId].isActive THEN Principal(users[userId]) ELSE NoUser

\* authenticate for a request drawn from the given routes and headers
AuthenticateWith(q, routes, headers) ==
    /\ reqs[q].pc = "idle"
    /\ \E route \in routes, header \in headers :
          /\ route.kind = "create" =>
                nextId < MaxRows /\ (header.kind = "valid" => header.userId \in Creators)
          /\ LET ctx == [IdleReq EXCEPT !.route = route, !.header = header,
                                        !.trail = <<"authenticate">>]
                 user == SelectActiveUser(header.userId)
             IN  reqs' = [reqs EXCEPT ![q] =
                    IF header.kind = "none" THEN Respond(ctx, 401, "Access token required")
                    ELSE IF VerifyAccessToken(header) # "none"
                    THEN AuthError(ctx, VerifyAccessToken(header))
                    ELSE IF user = NoUser THEN Respond(ctx, 401, "User not found or inactive")
                    ELSE Enter([ctx EXCEPT !.user = user], "requirePermission")]
    /\ UNCHANGED <<users, customers, leads, nextId, activities, refreshTokens, now, call, loginHist>>

authenticate(q) == AuthenticateWith(q, Routes, AuthHeaders)

-----------------------------------------------------------------------------
(* middleware/rbac.js: the middleware *)

AfterPermission(route) ==
    IF route.kind \in ListKinds THEN "applyDataFilter"
    ELSE IF route.kind \in SingleRecordKinds THEN "requireRecordAccess"
    ELSE "controller"

\* variant of requirePermission that lets every authenticated user through
requirePermissionAllowAll(ctx) ==
    IF ctx.user = NoUser THEN Respond(ctx, 401, "Authentication required")
    ELSE Enter(ctx, AfterPermission(ctx.route))

requirePermission(ctx) ==
    IF ctx.user = NoUser THEN Respond(ctx, 401, "Authentication required")
    ELSE LET allowed == hasPermission(ctx.user, ctx.route.resource, ctx.route.permission)
         IN  IF allowed = "TypeError" THEN Respond(ctx, 500, "TypeError")
             ELSE IF allowed = "false" THEN Respond(ctx, 403, "Insufficient permissions")
             ELSE Enter(ctx, AfterPermission(ctx.route))

RequirePermission(q) ==
    /\ reqs[q].pc = "requirePermission"
    /\ reqs' = [reqs EXCEPT ![q] = requirePermission(reqs[q])]
    /\ UNCHANGED <<users, customers, leads, nextId, activities, refreshTokens, now, call, loginHist>>

\* variant of requireRecordAccess that checks access before existence
requireRecordAccessAccessFirst(ctx, id, table) ==
    LET record == AccessColumns(SelectById(table, id))
        seen == [ctx EXCEPT !.id = id, !.record = record]
    IN  IF ctx.user = NoUser THEN Respond(ctx, 401, "Authentication required")
        ELSE IF ~canAccessRecord(ctx.user, record)
             THEN Respond(seen, 403, "Access denied to this resource")
        ELSE IF record = NoRecord THEN Respond(seen, 404, "not found")
        ELSE Enter(seen, "controller")

\* req.params.id is any id, also one of no row
requireRecordAccess(ctx, id, table) ==
    LET record == AccessColumns(SelectById(table, id))
        seen == [ctx EXCEPT !.id = id]
    IN  IF ctx.user = NoUser THEN Respond(ctx, 401, "Authentication required")
        ELSE IF record = NoRecord THEN Respond(seen, 404, "not found")
        ELSE IF ~canAccessRecord(ctx.user, record)
             THEN Respond([seen EXCEPT !.record = record], 403, "Access denied to this resource")
        ELSE Enter([seen EXCEPT !.record = record], "controller")

RequireRecordAccess(q) ==
    /\ reqs[q].pc = "requireRecordAccess"
    /\ \E id \in RowIds :
          reqs' = [reqs EXCEPT ![q] =
                      requireRecordAccess(reqs[q], id, TableOf(reqs[q].route.resourceType))]
    /\ UNCHANGED <<users, customers, leads, nextId, activities, refreshTokens, now, call, loginHist>>

applyDataFilter(ctx) ==
    IF ctx.user = NoUser THEN Respond(ctx, 401, "Authentication required")
    ELSE Enter([ctx EXCEPT !.dataFilter = getDataFilter(ctx.user)], "controller")

ApplyDataFilter(q) ==
    /\ reqs[q].pc = "applyDataFilter"
    /\ reqs' = [reqs EXCEPT ![q] = applyDataFilter(reqs[q])]
    /\ UNCHANGED <<users, customers, leads, nextId, activities, refreshTokens, now, call, loginHist>>

-----------------------------------------------------------------------------
(* Direct calls of the rbac functions, on inputs drawn from bounded sets *)

\* call holds the one call of a behaviour and its result
NoCall ==
    [fn |-> "none", user |-> NoUser, record |-> NoRecord, resource |-> Null,
     permission |-> Null, result |-> Null]

CallHasPermission ==
    /\ call = NoCall
    /\ \E user \in FnUsers, resource \in FnResources, permission \in FnPermissions :
          call' = [fn |-> "hasPermission", user |-> user, record |-> NoRecord,
                   resource |-> resource, permission |-> permission,
                   result |-> hasPermission(user, resource, permission)]
    /\ UNCHANGED <<users, customers, leads, nextId, activities, refreshTokens, now, reqs, loginHist>>

CallCanAccessRecord ==
    /\ call = NoCall
    /\ \E user \in FnUsers, record \in FnRecords :
          call' = [fn |-> "canAccessRecord", user |-> user, record |-> record,
                   resource |-> Null, permission |-> Null,
                   result |-> IF canAccessRecord(user, record) THEN "true" ELSE "false"]
    /\ UNCHANGED <<users, customers, leads, nextId, activities, refreshTokens, now, reqs, loginHist>>

\* the middleware requireRecordAccess run on one stored row (or none)
CallRequireRecordAccess ==
    /\ call = NoCall
    /\ \E user \in FnUsers, record \in FnRecords :
          LET row == IF record = NoRecord THEN NoRow
                     ELSE [NoRow EXCEPT !.ownerId = record.ownerId, !.teamId = record.teamId,
                                        !.assignedTo = record.assignedTo]
              table == [id \in RowIds |-> IF id = 1 THEN row ELSE NoRow]
              ctx == requireRecordAccess([IdleReq EXCEPT !.user = user], 1, table)
          IN  call' = [fn |-> "requireRecordAccess", user |-> user, record |-> record,
                       resource |-> Null, permission |-> Null,
                       result |-> IF ctx.pc = "done" THEN ctx.message ELSE "next"]
    /\ UNCHANGED <<users, customers, leads, nextId, activities, refreshTokens, now, reqs, loginHist>>

-----------------------------------------------------------------------------
(* utils/logger.js: the audit trail *)

NoChanges == [created |-> NoRow, deleted |-> NoRow, diff |-> {}]

\* Object.keys(newData).forEach(key => if (oldData[key] !== newData[key]) ...)
ChangedFields(oldData, newData) ==
    {[field |-> k, from |-> oldData[k], to |-> newData[k]] :
        k \in {f \in DOMAIN newData : oldData[f] # newData[f]}}

\* the activity auditRecordChange hands to logActivity
auditRecordChange(type, resourceType, resourceId, oldData, newData, userId) ==
    [type |-> type, resourceType |-> resourceType, resourceId |-> resourceId,
     userId |-> userId,
     changes |->
        CASE type = "create" -> [NoChanges EXCEPT !.created = newData]
          [] type = "update" -> [NoChanges EXCEPT !.diff = ChangedFields(oldData, newData)]
          [] type = "delete" -> [NoChanges EXCEPT !.deleted = oldData]
          [] OTHER -> NoChanges]

\* INSERT INTO activities
logActivity(log, activity) == Append(log, activity)

\* Customer rows as updateCustomer reads them: of the columns it writes, two
\* of those set with ||, the one set with !== undefined, and the two stamps
DiffCustomers ==
    [name : {"Acme"}, status : {"active", "inactive"}, notes : {"", "vip"},
     assignedTo : {"2", "3"}, updatedBy : {"2", "3"}, updatedAt : 1..MaxTime]

\* req.body of the update (Null: the key is absent)
DiffBodies ==
    [name : {Null, "Acme", "Apex"}, status : {Null, "active", "inactive"},
     notes : {Null, "", "vip"}, assignedTo : {Null, "3"}]

\* the users who update
DiffUsers == {"2", "3"}

\* const updateData = {...} of updateCustomer at time t
CustomerUpdateData(existing, body, userId, t) ==
    [name |-> Or(body.name, existing.name),
     status |-> Or(body.status, existing.status),
     notes |-> IF body.notes # Null THEN body.notes ELSE existing.notes,
     assignedTo |-> Or(body.assignedTo, existing.assignedTo),
     updatedBy |-> userId,
     updatedAt |-> t]

\* updateCustomer from its updateData to the activity it logs, for a row that
\* was last written at or before the time of the update
CallUpdateCustomer ==
    /\ call = NoCall
    /\ \E existing \in DiffCustomers, body \in DiffBodies, userId \in DiffUsers :
          \E t \in existing.updatedAt..MaxTime :
              LET updateData == CustomerUpdateData(existing, body, userId, t)
              IN  call' = [fn |-> "updateCustomer", existing |-> existing, body |-> body,
                           userId |-> userId, updateData |-> updateData,
                           activity |-> auditRecordChange("update", "customer", 1,
                                                          existing, updateData, userId)]
    /\ UNCHANGED <<users, customers, leads, nextId, activities, refreshTokens, now, reqs, loginHist>>

-----------------------------------------------------------------------------
(* controllers/customerController.js, controllers/leadController.js *)

At(q, kind, resourceType, pc) ==
    /\ reqs[q].pc = pc
    /\ reqs[q].route.kind = kind
    /\ reqs[q].route.resourceType = resourceType

\* LIMIT ? OFFSET ? with the default page 1 and limit 20
Page(ids) ==
    IF Cardinality(ids) <= DefaultLimit THEN ids
    ELSE CHOOSE S \in SUBSET ids : Cardinality(S) = DefaultLimit

\* the rows of a table that satisfy the caller's conditions and the data filter
SelectWhere(table, baseWhere(_), filter) ==
    {id \in RowIds : /\ table[id] # NoRow
                     /\ baseWhere(table[id])
                     /\ buildWhereClause(filter, table[id])}

\* In the joined list queries the caller's conditions name their columns
\* without the table alias: name, email (search of customers), description
\* (search of leads) and status (of leads) are columns of a joined table too,
\* SQLite rejects the statement (ambiguous column name) and the handler
\* answers 500.
getCustomers(q) ==
    /\ At(q, "list", "customer", "controller")
    /\ \E query \in CustomerQueries :
          LET ctx == [reqs[q] EXCEPT !.query = query]
              baseWhere(row) == Truthy(query.status) => row.status = query.status
          IN  reqs' = [reqs EXCEPT ![q] =
                  IF query.search THEN Respond(ctx, 500, "Failed to fetch customers")
                  ELSE [Respond(ctx, 200, "ok") EXCEPT
                            !.data = Page(SelectWhere(customers, baseWhere, ctx.dataFilter))]]
    /\ UNCHANGED <<users, customers, leads, nextId, activities, refreshTokens, now, call, loginHist>>

getLeads(q) ==
    /\ At(q, "list", "lead", "controller")
    /\ \E query \in LeadQueries :
          LET ctx == [reqs[q] EXCEPT !.query = query]
              baseWhere(row) == query.customerId # 0 => row.customerId = query.customerId
          IN  reqs' = [reqs EXCEPT ![q] =
                  IF query.search \/ Truthy(query.status)
                  THEN Respond(ctx, 500, "Failed to fetch leads")
                  ELSE [Respond(ctx, 200, "ok") EXCEPT
                            !.data = Page(SelectWhere(leads, baseWhere, ctx.dataFilter))]]
    /\ UNCHANGED <<users, customers, leads, nextId, activities, refreshTokens, now, call, loginHist>>

\* req.params.customerId is any id; no LIMIT
getLeadsByCustomer(q) ==
    /\ At(q, "listByCustomer", "lead", "controller")
    /\ \E customerId \in RowIds, status \in {Null, "inactive"} :
          LET ctx == [reqs[q] EXCEPT !.query = Query(FALSE, status, customerId)]
              baseWhere(row) == row.customerId = customerId
          IN  reqs' = [reqs EXCEPT ![q] =
                  IF Truthy(status) THEN Respond(ctx, 500, "Failed to fetch customer leads")
                  ELSE [Respond(ctx, 200, "ok") EXCEPT
                            !.data = SelectWhere(leads, baseWhere, ctx.dataFilter)]]
    /\ UNCHANGED <<users, customers, leads, nextId, activities, refreshTokens, now, call, loginHist>>

GetById(q, resourceType) ==
    /\ At(q, "get", resourceType, "controller")
    /\ LET ctx == reqs[q]
           row == SelectById(TableOf(resourceType), ctx.id)
       IN  reqs' = [reqs EXCEPT ![q] =
               IF row = NoRow THEN Respond(ctx, 404, "not found")
               ELSE [Respond(ctx, 200, "ok") EXCEPT !.data = {ctx.id}]]
    /\ UNCHANGED <<users, customers, leads, nextId, activities, refreshTokens, now, call, loginHist>>

getCustomerById(q) == GetById(q, "customer")

getLeadById(q) == GetById(q, "lead")

\* variant of NewRow that makes the assignee named in the body the owner
NewRowOfAssignee(resourceType, user, body) ==
    [ownerId |-> Or(body.assignedTo, user.id), teamId |-> user.teamId,
     assignedTo |-> Or(body.assignedTo, user.id),
     status |-> IF resourceType = "customer" THEN Or(body.status, "active") ELSE "new",
     customerId |-> body.customerId]

\* customerData / leadData of a create
NewRow(resourceType, user, body) ==
    [ownerId |-> user.id, teamId |-> user.teamId,
     assignedTo |-> Or(body.assignedTo, user.id),
     status |-> IF resourceType = "customer" THEN Or(body.status, "active") ELSE "new",
     customerId |-> body.customerId]

\* variant of ForeignKeysHold for a connection that does not enforce them
ForeignKeysOff(resourceType, row) == TRUE

\* the foreign keys of an inserted or updated row
ForeignKeysHold(resourceType, row) ==
    /\ row.ownerId \in DOMAIN users
    /\ row.assignedTo = Null \/ row.assignedTo \in DOMAIN users
    /\ resourceType = "lead" => SelectById(customers, row.customerId) # NoRow

\* validationResult, then INSERT (the id is fresh)
Insert(q, resourceType) ==
    /\ At(q, "create", resourceType, "controller")
    /\ \E body \in BodiesOf(resourceType) :
          LET ctx == [reqs[q] EXCEPT !.body = body]
              row == NewRow(resourceType, ctx.user, body)
              id == nextId + 1
          IN  IF ~body.valid
              THEN /\ reqs' = [reqs EXCEPT ![q] = Respond(ctx, 400, "Validation errors")]
                   /\ UNCHANGED storeVars
              ELSE IF ~ForeignKeysHold(resourceType, row) \/ id \notin RowIds
              THEN /\ reqs' = [reqs EXCEPT ![q] = Respond(ctx, 500, "Failed to create")]
                   /\ UNCHANGED storeVars
              ELSE /\ reqs' = [reqs EXCEPT ![q] =
                          [ctx EXCEPT !.pc = "audit", !.id = id, !.updateData = row,
                                      !.written = @ + 1]]
                   /\ nextId' = id
                   /\ IF resourceType = "customer"
                      THEN customers' = [customers EXCEPT ![id] = row] /\ UNCHANGED leads
                      ELSE leads' = [leads EXCEPT ![id] = row] /\ UNCHANGED customers
    /\ UNCHANGED <<users, activities, refreshTokens, now, call, loginHist>>

\* validationResult, then SELECT * of the existing row (update)
ReadForUpdate(q, resourceType) ==
    /\ At(q, "update", resourceType, "controller")
    /\ \E body \in BodiesOf(resourceType) :
          LET ctx == [reqs[q] EXCEPT !.body = body]
              existing == SelectById(TableOf(resourceType), ctx.id)
          IN  reqs' = [reqs EXCEPT ![q] =
                  IF ~body.valid THEN Respond(ctx, 400, "Validation errors")
                  ELSE IF existing = NoRow THEN Respond(ctx, 404, "not found")
                  ELSE [ctx EXCEPT !.pc = "write", !.existing = existing,
                            !.updateData =
                                [existing EXCEPT
                                    !.status = Or(body.status, existing.status),
                                    !.assignedTo = Or(body.assignedTo, existing.assignedTo)]]]
    /\ UNCHANGED <<users, customers, leads, nextId, activities, refreshTokens, now, call, loginHist>>

\* SELECT * of the existing row (delete)
ReadForDelete(q, resourceType) ==
    /\ At(q, "delete", resourceType, "controller")
    /\ LET ctx == reqs[q]
           existing == SelectById(TableOf(resourceType), ctx.id)
       IN  reqs' = [reqs EXCEPT ![q] =
               IF existing = NoRow THEN Respond(ctx, 404, "not found")
               ELSE [ctx EXCEPT !.pc = "write", !.existing = existing]]
    /\ UNCHANGED <<users, customers, leads, nextId, activities, refreshTokens, now, call, loginHist>>

\* UPDATE ... SET status = ?, assignedTo = ?, ... WHERE id = ?
Update(q, resourceType) ==
    /\ At(q, "update", resourceType, "write")
    /\ LET ctx == reqs[q]
           table == TableOf(resourceType)
           current == SelectById(table, ctx.id)
           row == [current EXCEPT !.status = ctx.updateData.status,
                                  !.assignedTo = ctx.updateData.assignedTo]
       IN  IF current # NoRow /\ ~ForeignKeysHold(resourceType, row)
           THEN /\ reqs' = [reqs EXCEPT ![q] = Respond(ctx, 500, "Failed to update")]
                /\ UNCHANGED storeVars
           ELSE /\ reqs' = [reqs EXCEPT ![q] =
                       [ctx EXCEPT !.pc = "audit",
                                   !.written = IF current = NoRow THEN @ ELSE @ + 1]]
                /\ nextId' = nextId
                /\ IF current = NoRow THEN UNCHANGED <<customers, leads>>
                   ELSE IF resourceType = "customer"
                   THEN customers' = [customers EXCEPT ![ctx.id] = row] /\ UNCHANGED leads
                   ELSE leads' = [leads EXCEPT ![ctx.id] = row] /\ UNCHANGED customers
    /\ UNCHANGED <<users, activities, refreshTokens, now, call, loginHist>>

\* variant of Cascade for a connection without PRAGMA foreign_keys = ON
CascadeOff(table, customerId) == table

\* ON DELETE CASCADE of leads.customerId
Cascade(table, customerId) ==
    [id \in DOMAIN table |-> IF table[id].customerId = customerId THEN NoRow ELSE table[id]]

\* DELETE FROM ... WHERE id = ?
Delete(q, resourceType) ==
    /\ At(q, "delete", resourceType, "write")
    /\ LET ctx == reqs[q]
           current == SelectById(TableOf(resourceType), ctx.id)
       IN  /\ reqs' = [reqs EXCEPT ![q] =
                  [ctx EXCEPT !.pc = "audit",
                              !.written = IF current = NoRow THEN @ ELSE @ + 1,
                              !.cascaded =
                                  IF resourceType = "customer" /\ current # NoRow
                                  THEN {id \in RowIds : Cascade(leads, ctx.id)[id] # leads[id]}
                                  ELSE {}]]
           /\ nextId' = nextId
           /\ IF resourceType = "customer"
              THEN /\ customers' = [customers EXCEPT ![ctx.id] = NoRow]
                   /\ leads' = IF current = NoRow THEN leads ELSE Cascade(leads, ctx.id)
              ELSE /\ leads' = [leads EXCEPT ![ctx.id] = NoRow]
                   /\ UNCHANGED customers
    /\ UNCHANGED <<users, activities, refreshTokens, now, call, loginHist>>

\* variant of AuditWrite in which a failed INSERT of the activity reaches the
\* handler's catch clause
AuditWriteThrowing(q, kind, resourceType, stored) ==
    /\ At(q, kind, resourceType, "audit")
    /\ LET ctx == reqs[q]
           activity == auditRecordChange(kind, resourceType, ctx.id, ctx.existing,
                                         ctx.updateData, ctx.user.id)
           logged == [ctx EXCEPT !.logged = @ + 1]
       IN  IF stored
           THEN /\ activities' = logActivity(activities, activity)
                /\ reqs' = [reqs EXCEPT ![q] =
                       IF kind = "delete" THEN Respond(logged, 200, "deleted successfully")
                       ELSE [logged EXCEPT !.pc = "fetch"]]
           ELSE /\ activities' = activities
                /\ reqs' = [reqs EXCEPT ![q] = Respond(ctx, 500, "Failed")]
    /\ UNCHANGED <<users, customers, leads, nextId, refreshTokens, now, call, loginHist>>

\* await auditRecordChange(...); a delete is answered right after it.  The
\* INSERT of the activity is stored or throws, and logActivity catches what it
\* throws.
AuditWrite(q, kind, resourceType, stored) ==
    /\ At(q, kind, resourceType, "audit")
    /\ LET ctx == reqs[q]
           activity == auditRecordChange(kind, resourceType, ctx.id, ctx.existing,
                                         ctx.updateData, ctx.user.id)
           logged == IF stored THEN [ctx EXCEPT !.logged = @ + 1] ELSE ctx
       IN  /\ activities' = IF stored THEN logActivity(activities, activity) ELSE activities
           /\ reqs' = [reqs EXCEPT ![q] =
                  IF kind = "delete" THEN Respond(logged, 200, "deleted successfully")
                  ELSE [logged EXCEPT !.pc = "fetch"]]
    /\ UNCHANGED <<users, customers, leads, nextId, refreshTokens, now, call, loginHist>>

Audit(q, kind, resourceType) == AuditWrite(q, kind, resourceType, TRUE)

\* the same step when the INSERT of the activity fails
AuditFailed(q) ==
    \E kind \in {"create", "update", "delete"}, resourceType \in {"customer", "lead"} :
        AuditWrite(q, kind, resourceType, FALSE)

\* SELECT of the created or updated row for the answer; customer.tags of a
\* missing customer row throws (500), a missing lead row is answered without data
Fetch(q, kind, resourceType) ==
    /\ At(q, kind, resourceType, "fetch")
    /\ LET ctx == reqs[q]
           row == SelectById(TableOf(resourceType), ctx.id)
           status == IF kind = "create" THEN 201 ELSE 200
       IN  reqs' = [reqs EXCEPT ![q] =
               IF row = NoRow /\ resourceType = "customer"
               THEN Respond(ctx, 500, "Failed")
               ELSE [Respond(ctx, status, "successfully") EXCEPT
                        !.data = IF row = NoRow THEN {} ELSE {ctx.id}]]
    /\ UNCHANGED <<users, customers, leads, nextId, activities, refreshTokens, now, call, loginHist>>

createCustomer(q) ==
    \/ Insert(q, "customer")
    \/ Audit(q, "create", "customer")
    \/ Fetch(q, "create", "customer")

updateCustomer(q) ==
    \/ ReadForUpdate(q, "customer")
    \/ Update(q, "customer")
    \/ Audit(q, "update", "customer")
    \/ Fetch(q, "update", "customer")

deleteCustomer(q) ==
    \/ ReadForDelete(q, "customer")
    \/ Delete(q, "customer")
    \/ Audit(q, "delete", "customer")

createLead(q) ==
    \/ Insert(q, "lead")
    \/ Audit(q, "create", "lead")
    \/ Fetch(q, "create", "lead")

updateLead(q) ==
    \/ ReadForUpdate(q, "lead")
    \/ Update(q, "lead")
    \/ Audit(q, "update", "lead")
    \/ Fetch(q, "update", "lead")

deleteLead(q) ==
    \/ ReadForDelete(q, "lead")
    \/ Delete(q, "lead")
    \/ Audit(q, "delete", "lead")

-----------------------------------------------------------------------------
(* controllers/authController.js: login *)

LoginRoute == Route("POST", "/auth/login", Null, Null, "user", "login")

\* req.body of a login: the email of an active account, of a deactivated
\* account and of no account; the right password, a wrong one and none
LoginEmails == {"john@crm.com", "emma@crm.com", "nobody@crm.com"}

LoginPasswords == {"right", "wrong", ""}

\* SELECT * FROM users WHERE email = ?
UserByEmail(email) ==
    IF \E id \in DOMAIN users : users[id].email = email
    THEN CHOOSE id \in DOMAIN users : users[id].email = email
    ELSE Null

\* variant of isAccountLocked that ignores the clock
isAccountLockedForever(user, t) == user.lockUntil # NullTime

isAccountLocked(user, t) == user.lockUntil # NullTime /\ user.lockUntil > t

\* variant of the lockUntil of incrementLoginAttempts that locks one attempt late
LockUntilAfterLate(attempts, t) ==
    IF attempts > MaxLoginAttempts THEN t + LockTime ELSE NullTime

\* the lockUntil incrementLoginAttempts computes
LockUntilAfter(attempts, t) ==
    IF attempts >= MaxLoginAttempts THEN t + LockTime ELSE NullTime

\* jwt.sign of the payload {userId, email, role}: tokens of one user signed in
\* the same tick are the same string
Sign(userId, t, ttl) == [userId |-> userId, iat |-> t, exp |-> t + ttl]

\* The streak of wrong-password attempts on an account, as a client counts it:
\* an attempt answered 423 changes nothing; any other attempt with a wrong
\* password extends the streak and is the failure the lock window is counted
\* from; any other attempt with the right password ends the streak.
InLockWindow(streak, t) == streak.wrong >= MaxLoginAttempts /\ t < streak.at + LockTime

AttemptMade(streak, password, locked, t) ==
    IF locked THEN streak
    ELSE IF password = "wrong"
         THEN [wrong |-> IF streak.wrong < MaxLoginAttempts THEN streak.wrong + 1
                         ELSE MaxLoginAttempts,
               at |-> t]
    ELSE NoStreak

\* validationResult, SELECT of the user, the lock and active checks and
\* bcrypt.compare, for a body drawn from the given emails and passwords
LoginWith(q, emails, passwords) ==
    /\ reqs[q].pc = "idle"
    /\ \E email \in emails, password \in passwords :
          LET id == UserByEmail(email)
              ctx == [IdleReq EXCEPT !.route = LoginRoute,
                                     !.login = [email |-> email, password |-> password],
                                     !.checkedAt = now,
                                     !.trail = <<"login">>]
          IN  /\ password = "right" => Len(refreshTokens) < MaxTokens
              /\ IF password = ""
                 THEN /\ reqs' = [reqs EXCEPT ![q] = Respond(ctx, 400, "Validation errors")]
                      /\ UNCHANGED loginHist
                 ELSE IF id = Null
                 THEN /\ reqs' = [reqs EXCEPT ![q] = Respond(ctx, 401, "Invalid credentials")]
                      /\ UNCHANGED loginHist
                 ELSE LET user == users[id]
                          seen == [ctx EXCEPT !.id = 0, !.user = Principal(user),
                                              !.streak = loginHist[id]]
                      IN  /\ loginHist' = [loginHist EXCEPT
                                              ![id] = AttemptMade(@, password, isAccountLocked(user, now), now)]
                          /\ reqs' = [reqs EXCEPT ![q] =
                                IF isAccountLocked(user, now)
                                THEN Respond(seen, 423, "Account temporarily locked")
                                ELSE IF ~user.isActive
                                THEN Respond(seen, 401, "Account is inactive")
                                ELSE IF password # user.password
                                THEN Enter(seen, "incrementLoginAttempts")
                                ELSE Enter(seen, "resetLoginAttempts")]
    /\ UNCHANGED <<users, customers, leads, nextId, activities, refreshTokens, now, call>>

login(q) == LoginWith(q, LoginEmails, LoginPasswords)

\* SELECT loginAttempts, then the new counter and lockUntil
IncrementRead(q) ==
    /\ reqs[q].pc = "incrementLoginAttempts"
    /\ LET ctx == reqs[q]
           attempts == users[ctx.user.id].loginAttempts + 1
       IN  reqs' = [reqs EXCEPT ![q] =
               [ctx EXCEPT !.pc = "incrementWrite", !.attempts = attempts,
                           !.lockUntil = LockUntilAfter(attempts, now)]]
    /\ UNCHANGED <<users, customers, leads, nextId, activities, refreshTokens, now, call, loginHist>>

\* variant of IncrementWrite whose answer names the password
IncrementWriteTelling(q) ==
    /\ reqs[q].pc = "incrementWrite"
    /\ LET ctx == reqs[q]
       IN  /\ users' = [users EXCEPT ![ctx.user.id].loginAttempts = ctx.attempts,
                                     ![ctx.user.id].lockUntil = ctx.lockUntil]
           /\ reqs' = [reqs EXCEPT ![q] = Respond(ctx, 401, "Invalid password")]
    /\ UNCHANGED <<customers, leads, nextId, activities, refreshTokens, now, call, loginHist>>

\* UPDATE users SET loginAttempts = ?, lockUntil = ?, then the 401
IncrementWrite(q) ==
    /\ reqs[q].pc = "incrementWrite"
    /\ LET ctx == reqs[q]
       IN  /\ users' = [users EXCEPT ![ctx.user.id].loginAttempts = ctx.attempts,
                                     ![ctx.user.id].lockUntil = ctx.lockUntil]
           /\ reqs' = [reqs EXCEPT ![q] = Respond(ctx, 401, "Invalid credentials")]
    /\ UNCHANGED <<customers, leads, nextId, activities, refreshTokens, now, call, loginHist>>

incrementLoginAttempts(q) == IncrementRead(q) \/ IncrementWrite(q)

\* variant of resetLoginAttempts that lifts the lock and keeps the counter
resetLoginAttemptsLockOnly(q) ==
    /\ reqs[q].pc = "resetLoginAttempts"
    /\ users' = [users EXCEPT ![reqs[q].user.id].lockUntil = NullTime]
    /\ reqs' = [reqs EXCEPT ![q] = Enter(reqs[q], "lastLoginAt")]
    /\ UNCHANGED <<customers, leads, nextId, activities, refreshTokens, now, call, loginHist>>

\* UPDATE users SET loginAttempts = 0, lockUntil = NULL
resetLoginAttempts(q) ==
    /\ reqs[q].pc = "resetLoginAttempts"
    /\ users' = [users EXCEPT ![reqs[q].user.id].loginAttempts = 0,
                              ![reqs[q].user.id].lockUntil = NullTime]
    /\ reqs' = [reqs EXCEPT ![q] = Enter(reqs[q], "lastLoginAt")]
    /\ UNCHANGED <<customers, leads, nextId, activities, refreshTokens, now, call, loginHist>>

\* UPDATE users SET lastLoginAt = ?, then generateTokens
StampLastLogin(q) ==
    /\ reqs[q].pc = "lastLoginAt"
    /\ LET ctx == reqs[q]
       IN  /\ users' = [users EXCEPT ![ctx.user.id].lastLoginAt = now]
           /\ reqs' = [reqs EXCEPT ![q] =
                  [Enter(ctx, "storeRefreshToken") EXCEPT
                      !.accessToken = Sign(ctx.user.id, now, AccessTtl),
                      !.refreshToken = Sign(ctx.user.id, now, RefreshTtl)]]
    /\ UNCHANGED <<customers, leads, nextId, activities, refreshTokens, now, call, loginHist>>

\* INSERT INTO refresh_tokens
StoreInsert(q) ==
    /\ reqs[q].pc = "storeRefreshToken"
    /\ LET ctx == reqs[q]
       IN  /\ refreshTokens' = Append(refreshTokens,
                                      [userId |-> ctx.user.id, token |-> ctx.refreshToken,
                                       expiresAt |-> now + RefreshTtl])
           /\ reqs' = [reqs EXCEPT ![q] = [ctx EXCEPT !.pc = "storeCleanup", !.written = @ + 1]]
    /\ UNCHANGED <<users, customers, leads, nextId, activities, now, call, loginHist>>

\* DELETE FROM refresh_tokens WHERE expiresAt < ?; a refresh is answered
\* right after it, a login goes on to logActivity
StoreCleanup(q) ==
    /\ reqs[q].pc = "storeCleanup"
    /\ refreshTokens' = SelectSeq(refreshTokens, LAMBDA row : ~(row.expiresAt < now))
    /\ reqs' = [reqs EXCEPT ![q] =
           IF reqs[q].route.kind = "refresh"
           THEN Respond(reqs[q], 200, "Token refreshed successfully")
           ELSE Enter(reqs[q], "logActivity")]
    /\ UNCHANGED <<users, customers, leads, nextId, activities, now, call, loginHist>>

storeRefreshToken(q) == StoreInsert(q) \/ StoreCleanup(q)

\* logActivity of the login, then the answer with the tokens
LogLogin(q) ==
    /\ reqs[q].pc = "logActivity"
    /\ reqs[q].route.kind = "login"
    /\ LET ctx == reqs[q]
           activity == [type |-> "login", resourceType |-> "user", resourceId |-> ctx.user.id,
                        userId |-> ctx.user.id, changes |-> NoChanges]
       IN  /\ activities' = logActivity(activities, activity)
           /\ reqs' = [reqs EXCEPT ![q] =
                  [Respond(ctx, 200, "Login successful") EXCEPT !.logged = @ + 1]]
    /\ UNCHANGED <<users, customers, leads, nextId, refreshTokens, now, call, loginHist>>

(* controllers/authController.js: register *)

RegisterRoute == Route("POST", "/auth/register", Null, Null, "user", "register")

\* the ids uuidv4 gives to registered users
NewUserIds == {"7"}

\* req.body of a register: valid or not, the email of an account or a new
\* one, and a role key that the handler does not read
RegisterBodies ==
    [valid : BOOLEAN, email : {"john@crm.com", "new@crm.com"}, password : {"right"},
     role : {Null, "admin"}]

\* validationResult, then SELECT id FROM users WHERE email = ?
RegisterCheck(q) ==
    /\ reqs[q].pc = "idle"
    /\ Len(refreshTokens) < MaxTokens
    /\ \E body \in RegisterBodies :
          LET ctx == [IdleReq EXCEPT !.route = RegisterRoute, !.login = body,
                                     !.trail = <<"register">>]
          IN  /\ (body.valid /\ UserByEmail(body.email) = Null) => NewUserIds \ DOMAIN users # {}
              /\ reqs' = [reqs EXCEPT ![q] =
                     IF ~body.valid THEN Respond(ctx, 400, "Validation errors")
                     ELSE IF UserByEmail(body.email) # Null
                     THEN Respond(ctx, 409, "User with this email already exists")
                     ELSE Enter(ctx, "insertUser")]
    /\ UNCHANGED <<users, customers, leads, nextId, activities, refreshTokens, now, call, loginHist>>

\* the users row of a register whose INSERT takes the role from the body
RegisteredRowOfBody(id, body) ==
    UserRow(id, body.email, Or(body.role, "sales_rep"), Null, TRUE)

\* INSERT INTO users (..., role, isActive, ...) VALUES (..., 'sales_rep', 1, ...)
RegisteredRow(id, body) == UserRow(id, body.email, "sales_rep", Null, TRUE)

\* the INSERT of the user; users.email is UNIQUE
RegisterInsert(q) ==
    /\ reqs[q].pc = "insertUser"
    /\ LET ctx == reqs[q]
           id == CHOOSE u \in NewUserIds : u \notin DOMAIN users
       IN  IF UserByEmail(ctx.login.email) # Null \/ NewUserIds \subseteq DOMAIN users
           THEN /\ reqs' = [reqs EXCEPT ![q] = Respond(ctx, 500, "Internal server error")]
                /\ UNCHANGED users
           ELSE /\ users' = [u \in DOMAIN users \cup {id} |->
                                IF u = id THEN RegisteredRow(id, ctx.login) ELSE users[u]]
                /\ reqs' = [reqs EXCEPT ![q] =
                       [Enter(ctx, "selectUser") EXCEPT !.id = 0, !.written = @ + 1,
                                                        !.user = [NoUser EXCEPT !.id = id]]]
    /\ UNCHANGED <<customers, leads, nextId, activities, refreshTokens, now, call, loginHist>>

\* SELECT of the created user, then generateTokens
RegisterSelect(q) ==
    /\ reqs[q].pc = "selectUser"
    /\ LET ctx == reqs[q]
           id == ctx.user.id
       IN  reqs' = [reqs EXCEPT ![q] =
               [Enter(ctx, "storeRefreshToken") EXCEPT
                   !.user = Principal(users[id]),
                   !.accessToken = Sign(id, now, AccessTtl),
                   !.refreshToken = Sign(id, now, RefreshTtl)]]
    /\ UNCHANGED <<users, customers, leads, nextId, activities, refreshTokens, now, call, loginHist>>

\* logActivity of the registration, then the 201
LogRegister(q) ==
    /\ reqs[q].pc = "logActivity"
    /\ reqs[q].route.kind = "register"
    /\ LET ctx == reqs[q]
           activity == [type |-> "create", resourceType |-> "user", resourceId |-> ctx.user.id,
                        userId |-> ctx.user.id, changes |-> NoChanges]
       IN  /\ activities' = logActivity(activities, activity)
           /\ reqs' = [reqs EXCEPT ![q] =
                  [Respond(ctx, 201, "Registration successful") EXCEPT !.logged = @ + 1]]
    /\ UNCHANGED <<users, customers, leads, nextId, refreshTokens, now, call, loginHist>>

\* the handler register; its storeRefreshToken is the one of login
register(q) == RegisterCheck(q) \/ RegisterInsert(q) \/ RegisterSelect(q) \/ LogRegister(q)

(* controllers/authController.js: refreshToken and logout *)

\* the logins that open the sessions whose tokens are refreshed and revoked
SessionLogin(q) == LoginWith(q, {"john@crm.com"}, {"right"})

RefreshRoute == Route("POST", "/auth/refresh-token", Null, Null, "user", "refresh")

LogoutRoute == Route("POST", "/auth/logout", Null, Null, "user", "logout")

\* the users whose refresh tokens are presented
TokenUsers == {"2"}

\* a string that is no token signed with the refresh secret
BadToken == [userId |-> "bad", iat |-> 0, exp |-> 0]

\* req.body.refreshToken: absent, not a refresh token, or a refresh token
\* signed for a user at some time up to t
PresentedTokens(t) ==
    {NoToken, BadToken} \cup {Sign(u, i, RefreshTtl) : u \in TokenUsers, i \in 1..t}

\* jwt.verify(refreshToken, config.jwt.refreshSecret) does not throw
VerifyRefreshToken(token, t) == token # BadToken /\ token.exp > t

\* the rows SELECT * FROM refresh_tokens WHERE token = ? AND userId = ? AND
\* expiresAt > ? returns
StoredToken(rows, token, t) ==
    {i \in DOMAIN rows : /\ rows[i].token = token
                         /\ rows[i].userId = token.userId
                         /\ rows[i].expiresAt > t}

\* variant of removeRefreshToken that deletes one row
removeRefreshTokenOnce(rows, token) ==
    IF \E i \in DOMAIN rows : rows[i].token = token
    THEN LET first == CHOOSE i \in DOMAIN rows :
                          /\ rows[i].token = token
                          /\ \A j \in 1..(i - 1) : rows[j].token # token
         IN  [j \in 1..(Len(rows) - 1) |-> IF j < first THEN rows[j] ELSE rows[j + 1]]
    ELSE rows

\* DELETE FROM refresh_tokens WHERE token = ?
removeRefreshToken(rows, token) == SelectSeq(rows, LAMBDA row : row.token # token)

\* the check of req.body.refreshToken, jwt.verify and the SELECT of the stored token
RefreshLookupWith(q, tokens) ==
    /\ reqs[q].pc = "idle"
    /\ \E presented \in tokens :
          LET ctx == [IdleReq EXCEPT !.route = RefreshRoute, !.presented = presented,
                                     !.trail = <<"refreshToken">>]
          IN  reqs' = [reqs EXCEPT ![q] =
                  IF presented = NoToken THEN Respond(ctx, 401, "Refresh token required")
                  ELSE IF ~VerifyRefreshToken(presented, now)
                  THEN Respond(ctx, 401, "Invalid refresh token")
                  ELSE IF StoredToken(refreshTokens, presented, now) = {}
                  THEN Respond(ctx, 401, "Invalid or expired refresh token")
                  ELSE Enter(ctx, "refreshUser")]
    /\ UNCHANGED <<users, customers, leads, nextId, activities, refreshTokens, now, call, loginHist>>

\* the SELECT of the user, then generateTokens
RefreshUser(q) ==
    /\ reqs[q].pc = "refreshUser"
    /\ LET ctx == reqs[q]
           user == SelectActiveUser(ctx.presented.userId)
       IN  reqs' = [reqs EXCEPT ![q] =
               IF user = NoUser THEN Respond(ctx, 401, "User not found or inactive")
               ELSE [Enter(ctx, "removeRefreshToken") EXCEPT
                        !.user = user,
                        !.accessToken = Sign(user.id, now, AccessTtl),
                        !.refreshToken = Sign(user.id, now, RefreshTtl)]]
    /\ UNCHANGED <<users, customers, leads, nextId, activities, refreshTokens, now, call, loginHist>>

\* await removeRefreshToken(refreshToken)
RefreshRemove(q) ==
    /\ reqs[q].pc = "removeRefreshToken"
    /\ refreshTokens' = removeRefreshToken(refreshTokens, reqs[q].presented)
    /\ reqs' = [reqs EXCEPT ![q] = Enter(reqs[q], "storeRefreshToken")]
    /\ UNCHANGED <<users, customers, leads, nextId, activities, now, call, loginHist>>

\* the first statements of refreshToken for any req.body.refreshToken
RefreshLookup(q) == RefreshLookupWith(q, PresentedTokens(now))

\* the handler refreshToken; its storeRefreshToken is the one of login
refreshToken(q) == RefreshLookup(q) \/ RefreshUser(q) \/ RefreshRemove(q)

\* the refresh tokens the clients hold: those of the rows of refresh_tokens
SessionTokens == {refreshTokens[i].token : i \in DOMAIN refreshTokens}

\* the handler refreshToken called with a token a client holds
SessionRefresh(q) ==
    RefreshLookupWith(q, SessionTokens) \/ RefreshUser(q) \/ RefreshRemove(q)

\* the Authorization headers of the logout requests
LogoutHeaders ==
    {NoHeader, [kind |-> "invalid", userId |-> Null], [kind |-> "valid", userId |-> "2"]}

\* optionalAuth: a missing or bad token and an inactive user are passed over
optionalAuth(q) ==
    /\ reqs[q].pc = "idle"
    /\ \E header \in LogoutHeaders, presented \in PresentedTokens(now) :
          LET ctx == [IdleReq EXCEPT !.route = LogoutRoute, !.header = header,
                                     !.presented = presented,
                                     !.trail = <<"optionalAuth">>]
              user == IF header.kind = "valid" THEN SelectActiveUser(header.userId)
                      ELSE NoUser
          IN  reqs' = [reqs EXCEPT ![q] = Enter([ctx EXCEPT !.user = user], "logout")]
    /\ UNCHANGED <<users, customers, leads, nextId, activities, refreshTokens, now, call, loginHist>>

\* if (refreshToken) await removeRefreshToken(refreshToken); without a
\* principal the answer follows
LogoutRemove(q) ==
    /\ reqs[q].pc = "logout"
    /\ LET ctx == reqs[q]
       IN  /\ refreshTokens' = IF ctx.presented = NoToken THEN refreshTokens
                               ELSE removeRefreshToken(refreshTokens, ctx.presented)
           /\ reqs' = [reqs EXCEPT ![q] =
                  [(IF ctx.user # NoUser THEN Enter(ctx, "logActivity")
                    ELSE Respond(ctx, 200, "Logout successful"))
                   EXCEPT !.written = Len(refreshTokens) - Len(refreshTokens')]]
    /\ UNCHANGED <<users, customers, leads, nextId, activities, now, call, loginHist>>

\* logActivity of the logout, then the answer
LogLogout(q) ==
    /\ reqs[q].pc = "logActivity"
    /\ reqs[q].route.kind = "logout"
    /\ LET ctx == reqs[q]
           activity == [type |-> "logout", resourceType |-> "user", resourceId |-> ctx.user.id,
                        userId |-> ctx.user.id, changes |-> NoChanges]
       IN  /\ activities' = logActivity(activities, activity)
           /\ reqs' = [reqs EXCEPT ![q] =
                  [Respond(ctx, 200, "Logout successful") EXCEPT !.logged = @ + 1]]
    /\ UNCHANGED <<users, customers, leads, nextId, refreshTokens, now, call, loginHist>>

logout(q) == LogoutRemove(q) \/ LogLogout(q)

\* logActivity of a login, logout or register when its INSERT fails: the
\* error is caught in logActivity and the handler answers as it does otherwise
LogFailed(q) ==
    /\ reqs[q].pc = "logActivity"
    /\ LET ctx == reqs[q]
       IN  reqs' = [reqs EXCEPT ![q] =
               CASE ctx.route.kind = "login" -> Respond(ctx, 200, "Login successful")
                 [] ctx.route.kind = "register" -> Respond(ctx, 201, "Registration successful")
                 [] OTHER -> Respond(ctx, 200, "Logout successful")]
    /\ UNCHANGED <<users, customers, leads, nextId, activities, refreshTokens, now, call, loginHist>>

\* the process dies while it handles a refresh; the tables stay as they are
Crash(q) ==
    /\ reqs[q].route.kind = "refresh"
    /\ reqs[q].pc \notin {"idle", "done", "crashed"}
    /\ reqs' = [reqs EXCEPT ![q].pc = "crashed"]
    /\ UNCHANGED <<users, customers, leads, nextId, activities, refreshTokens, now, call, loginHist>>

\* the process is started again
Restart(q) ==
    /\ reqs[q].pc = "crashed"
    /\ reqs' = [reqs EXCEPT ![q] = IdleReq]
    /\ activities' = <<>>
    /\ UNCHANGED <<users, customers, leads, nextId, refreshTokens, now, call, loginHist>>

\* the users an administrator deactivates
Deactivated == {"2"}

\* a user is deactivated (the active flag is cleared, the row is kept)
Deactivate ==
    /\ \E id \in Deactivated :
          /\ users[id].isActive
          /\ users' = [users EXCEPT ![id].isActive = FALSE]
    /\ UNCHANGED <<customers, leads, nextId, activities, refreshTokens, now, reqs, call, loginHist>>

\* time passes
Tick ==
    /\ now < MaxTime
    /\ now' = now + 1
    /\ UNCHANGED <<users, customers, leads, nextId, activities, refreshTokens, reqs, call, loginHist>>

-----------------------------------------------------------------------------
(* The specifications *)

Init ==
    /\ users = InitUsers
    /\ customers = [id \in RowIds |-> NoRow]
    /\ leads = [id \in RowIds |-> NoRow]
    /\ nextId = 0
    /\ activities = <<>>
    /\ refreshTokens = <<>>
    /\ now = 1
    /\ reqs = [q \in Slots |-> IdleReq]
    /\ call = NoCall
    /\ loginHist = [id \in UserIds |-> NoStreak]

\* the customer and lead routes, one request at a time
Next ==
    \/ authenticate(Main)
    \/ RequirePermission(Main)
    \/ RequireRecordAccess(Main)
    \/ ApplyDataFilter(Main)
    \/ getCustomers(Main)
    \/ getCustomerById(Main)
    \/ createCustomer(Main)
    \/ updateCustomer(Main)
    \/ deleteCustomer(Main)
    \/ getLeads(Main)
    \/ getLeadsByCustomer(Main)
    \/ getLeadById(Main)
    \/ createLead(Main)
    \/ updateLead(Main)
    \/ deleteLead(Main)
    \/ Close(Main)

Spec == Init /\ [][Next]_vars

\* direct calls of the pure functions of middleware/rbac.js
NextRbac == CallHasPermission \/ CallCanAccessRecord \/ CallRequireRecordAccess

SpecRbac == Init /\ [][NextRbac]_vars

\* one update of a customer, from the row read to the activity logged
NextDiff == CallUpdateCustomer

SpecDiff == Init /\ [][NextDiff]_vars

\* logins, one request at a time, while time passes
NextLogin ==
    \/ login(Main)
    \/ incrementLoginAttempts(Main)
    \/ resetLoginAttempts(Main)
    \/ StampLastLogin(Main)
    \/ storeRefreshToken(Main)
    \/ LogLogin(Main)
    \/ Close(Main)
    \/ Tick

SpecLogin == Init /\ [][NextLogin]_vars

\* logins, refreshes and logouts, one request at a time, while time passes,
\* the process may crash in a refresh and the user may be deactivated
NextToken ==
    \/ SessionLogin(Main)
    \/ resetLoginAttempts(Main)
    \/ StampLastLogin(Main)
    \/ storeRefreshToken(Main)
    \/ LogLogin(Main)
    \/ refreshToken(Main)
    \/ optionalAuth(Main)
    \/ logout(Main)
    \/ Crash(Main)
    \/ Restart(Main)
    \/ Deactivate
    \/ Close(Main)
    \/ Tick

SpecToken == Init /\ [][NextToken]_vars

\* the public auth endpoints: register, login, refresh and logout
NextAuth == NextToken \/ register(Main)

SpecAuth == Init /\ [][NextAuth]_vars

\* the logins of one account with the right and a wrong password
AccountLogin(q) == LoginWith(q, {"john@crm.com"}, {"right", "wrong"})

\* logins of one account and refreshes of its tokens, one request at a time,
\* while time passes
NextLock ==
    \/ AccountLogin(Main)
    \/ incrementLoginAttempts(Main)
    \/ resetLoginAttempts(Main)
    \/ StampLastLogin(Main)
    \/ storeRefreshToken(Main)
    \/ LogLogin(Main)
    \/ refreshToken(Main)
    \/ Close(Main)
    \/ Tick

SpecLock == Init /\ [][NextLock]_vars

\* a login while the activities table holds less than MaxRows rows
BoundedLogin(q) == Len(activities) < MaxRows /\ SessionLogin(q)

\* logins, and refreshes two requests at a time, while time passes
NextRotate ==
    \/ BoundedLogin(Main)
    \/ resetLoginAttempts(Main)
    \/ StampLastLogin(Main)
    \/ LogLogin(Main)
    \/ \E q \in Slots :
          \/ SessionRefresh(q)
          \/ storeRefreshToken(q)
          \/ Close(q)
    \/ Tick

SpecRotate == Init /\ [][NextRotate]_vars

\* logins of one account, two requests at a time
NextRace ==
    \E q \in Slots :
        \/ AccountLogin(q)
        \/ incrementLoginAttempts(q)
        \/ resetLoginAttempts(q)
        \/ StampLastLogin(q)
        \/ storeRefreshToken(q)
        \/ LogLogin(q)
        \/ Close(q)

SpecRace == Init /\ [][NextRace]_vars

\* the routes that write a customer row
CustomerMutationRoutes ==
    {route \in CustomerRoutes : route.kind \in {"create", "update", "delete"}}

\* the slot of the second request
Peer == "b"

\* the routes that update a customer row
CustomerUpdateRoutes == {route \in CustomerRoutes : route.kind = "update"}

\* the access token of the admin, of a sales rep
AdminHeaders == {[kind |-> "valid", userId |-> "1"]}

RepHeaders == {[kind |-> "valid", userId |-> "2"]}

\* a customer mutation of the admin arrives while the activities table is empty
AdminMutation(q) ==
    /\ activities = <<>>
    /\ AuthenticateWith(q, CustomerMutationRoutes, AdminHeaders)

\* a customer update of the sales rep arrives while the activities table is empty
RepUpdate(q) ==
    /\ activities = <<>>
    /\ AuthenticateWith(q, CustomerUpdateRoutes, RepHeaders)

\* customer mutations of the admin and updates of a sales rep, two requests
\* at a time
NextOverlap ==
    \/ AdminMutation(Main)
    \/ RepUpdate(Peer)
    \/ \E q \in Slots :
          \/ RequirePermission(q)
          \/ RequireRecordAccess(q)
          \/ createCustomer(q)
          \/ updateCustomer(q)
          \/ deleteCustomer(q)
          \/ Close(q)

SpecOverlap == Init /\ [][NextOverlap]_vars

\* the routes that write a customer or lead row
MutationRoutes == {route \in Routes : route.kind \in {"create", "update", "delete"}}

\* the access tokens of the requests whose audit records may fail
AuditHeaders == {[kind |-> "valid", userId |-> u] : u \in {"1", "3"}}

\* the operations that write an audit record, one request at a time; the
\* INSERT of the record succeeds or fails
NextAudit ==
    \/ AuthenticateWith(Main, MutationRoutes, AuditHeaders)
    \/ RequirePermission(Main)
    \/ RequireRecordAccess(Main)
    \/ createCustomer(Main)
    \/ updateCustomer(Main)
    \/ deleteCustomer(Main)
    \/ createLead(Main)
    \/ updateLead(Main)
    \/ deleteLead(Main)
    \/ AuditFailed(Main)
    \/ SessionLogin(Main)
    \/ resetLoginAttempts(Main)
    \/ StampLastLogin(Main)
    \/ storeRefreshToken(Main)
    \/ LogLogin(Main)
    \/ optionalAuth(Main)
    \/ logout(Main)
    \/ register(Main)
    \/ LogFailed(Main)
    \/ Close(Main)

SpecAudit == Init /\ [][NextAudit]_vars

-----------------------------------------------------------------------------
(* The properties *)

\* the matrix entry of the user's role lists the route's action
MatrixAllows(user, route) ==
    /\ user.role \in DOMAIN ROLE_PERMISSIONS
    /\ route.resource \in DOMAIN ROLE_PERMISSIONS[user.role]
    /\ route.permission \in ROLE_PERMISSIONS[user.role][route.resource]

\* the rows a role may see in a list
InScope(user, row) ==
    CASE user.role = "admin" -> TRUE
      [] user.role = "manager" -> row.teamId = user.teamId
      [] OTHER -> row.ownerId = user.id

\* the filters the caller put in the query string
CallerFilterHolds(query, row) ==
    /\ Truthy(query.status) => row.status = query.status
    /\ query.customerId # 0 => row.customerId = query.customerId

Answered(ctx, kinds) == ctx.pc = "done" /\ ctx.route.kind \in kinds

CalledCanAccessRecord ==
    call.fn = "canAccessRecord" /\ call.user # NoUser /\ call.record # NoRecord

(* C1 *)

\* C1 as stated: for a manager, canAccessRecord is true exactly when the
\* record's teamId equals the manager's teamId, also when the manager is the
\* record's ownerId or assignedTo.
C1_ManagerTeamOnly ==
    (CalledCanAccessRecord /\ call.user.role = "manager")
        => (call.result = "true" <=> call.record.teamId = call.user.teamId)

\* C1 amended: for a manager, canAccessRecord is true exactly when the
\* record's teamId equals the manager's teamId, or the manager is the record's
\* ownerId, or the manager is the record's assignedTo.
C1_ManagerTeamOrOwn ==
    (CalledCanAccessRecord /\ call.user.role = "manager")
        => (call.result = "true" <=> \/ call.record.teamId = call.user.teamId
                                     \/ call.record.ownerId = call.user.id
                                     \/ call.record.assignedTo = call.user.id)

\* a manager is granted a record of another team that is assigned to them
C1_Witness ==
    /\ CalledCanAccessRecord
    /\ call.user.role = "manager"
    /\ call.record.teamId # call.user.teamId
    /\ call.record.ownerId # call.user.id
    /\ call.record.assignedTo = call.user.id
    /\ call.result = "true"

(* C2 *)

\* C2 as stated: every row a list endpoint returns satisfies the role scope
\* of the caller (admin: any row; manager, also one whose teamId is unset:
\* rows of the manager's teamId; sales rep: rows the rep owns) and the filters
\* of the caller.
C2_ListScoped ==
    \A q \in Slots :
        LET ctx == reqs[q]
        IN  (Answered(ctx, ListKinds) /\ ctx.status = 200) =>
                \A id \in ctx.data :
                    LET row == TableOf(ctx.route.resourceType)[id]
                    IN  /\ row # NoRow
                        /\ InScope(ctx.user, row)
                        /\ CallerFilterHolds(ctx.query, row)

(* C3 *)

\* a customer some sales rep of a team created and still owns
OwnedByRepOfTeam(row) ==
    /\ row # NoRow
    /\ users[row.ownerId].role = "sales_rep"
    /\ users[row.ownerId].teamId = row.teamId

\* C3: a customer created by a sales rep of team T1 is not returned by GET
\* /customers of another sales rep of T1, is returned by GET /customers of a
\* manager of T1, and is returned by GET /customers of an admin of any team
\* (when it matches the caller's own filters).
C3_TeamVisibility ==
    \A q \in Slots :
        LET ctx == reqs[q]
        IN  (Answered(ctx, {"list"}) /\ ctx.route.resourceType = "customer" /\ ctx.status = 200) =>
                \A id \in RowIds :
                    LET row == customers[id]
                    IN  OwnedByRepOfTeam(row) =>
                            /\ (/\ ctx.user.role = "sales_rep"
                                /\ ctx.user.teamId = row.teamId
                                /\ ctx.user.id # row.ownerId) => id \notin ctx.data
                            /\ (/\ ctx.user.role = "manager"
                                /\ ctx.user.teamId = row.teamId
                                /\ CallerFilterHolds(ctx.query, row)) => id \in ctx.data
                            /\ (/\ ctx.user.role = "admin"
                                /\ CallerFilterHolds(ctx.query, row)) => id \in ctx.data

\* the three lists of the scenario, each answered with a rep's customer in the store
C3_ListAnsweredTo(role, sameTeam) ==
    \E q \in Slots, id \in RowIds :
        /\ Answered(reqs[q], {"list"})
        /\ reqs[q].route.resourceType = "customer"
        /\ reqs[q].status = 200
        /\ OwnedByRepOfTeam(customers[id])
        /\ reqs[q].user.role = role
        /\ reqs[q].user.id # customers[id].ownerId
        /\ (reqs[q].user.teamId = customers[id].teamId) = sameTeam
        /\ CallerFilterHolds(reqs[q].query, customers[id])
        /\ (id \in reqs[q].data) = (role # "sales_rep")

C3_Witness == C3_ListAnsweredTo("sales_rep", TRUE)

(* C4 *)

\* C4: canAccessRecord is true for an admin and every record, whoever owns it
\* and whatever its team; requireRecordAccess rejects no request of an admin
\* for a record that exists.
C4_AdminAccess ==
    /\ (CalledCanAccessRecord /\ call.user.role = "admin") => call.result = "true"
    /\ (/\ call.fn = "requireRecordAccess"
        /\ call.user # NoUser
        /\ call.user.role = "admin"
        /\ call.record # NoRecord) => call.result = "next"

\* the middleware lets an admin through to a record of another team and owner
C4_Witness ==
    /\ call.fn = "requireRecordAccess"
    /\ call.user # NoUser
    /\ call.user.role = "admin"
    /\ call.record # NoRecord
    /\ call.record.teamId # call.user.teamId
    /\ call.record.ownerId # call.user.id
    /\ call.record.assignedTo # call.user.id
    /\ call.result = "next"

(* C5 *)

\* C5: for a principal that is neither admin nor manager, canAccessRecord is
\* true exactly when the principal is the record's ownerId or its assignedTo;
\* sharing the record's team alone grants nothing.
C5_RepOwnOrAssigned ==
    (CalledCanAccessRecord /\ call.user.role \notin {"admin", "manager"})
        => (call.result = "true" <=> \/ call.record.ownerId = call.user.id
                                     \/ call.record.assignedTo = call.user.id)

\* a sales rep is refused a record of their own team
C5_Witness ==
    /\ CalledCanAccessRecord
    /\ call.user.role = "sales_rep"
    /\ call.user.teamId # Null
    /\ call.record.teamId = call.user.teamId
    /\ call.record.ownerId # call.user.id
    /\ call.record.assignedTo # call.user.id
    /\ call.result = "false"

(* C6 *)

\* C6 as stated: hasPermission is true only if the action is listed in the
\* matrix entry of the principal's role and the resource; it is false for a
\* missing principal, an unknown role and an unknown resource; a sales rep is
\* never granted delete on customers or leads.
C6_FailClosed ==
    call.fn = "hasPermission" =>
        /\ call.result = "true" =>
              /\ call.user # NoUser
              /\ call.user.role \in DOMAIN ROLE_PERMISSIONS
              /\ call.resource \in DOMAIN ROLE_PERMISSIONS[call.user.role]
              /\ call.permission \in ROLE_PERMISSIONS[call.user.role][call.resource]
        /\ (\/ call.user = NoUser
            \/ call.user.role \notin DOMAIN ROLE_PERMISSIONS
            \/ call.resource \notin DOMAIN ROLE_PERMISSIONS[call.user.role])
              => call.result = "false"
        /\ (/\ call.user # NoUser
            /\ call.user.role = "sales_rep"
            /\ call.resource \in {"customers", "leads"}
            /\ call.permission = "delete") => call.result = "false"

(* C7 *)

\* a single-record request of an authenticated user is answered
SingleAnswered(ctx) == Answered(ctx, SingleRecordKinds) /\ ctx.user # NoUser

\* the request wrote no customer, lead or activity row
NothingWritten(ctx) == ctx.written = 0 /\ ctx.logged = 0

\* Permission denial: 403, the record is never read and nothing is written.
\* A 403 or 404 answer of a permitted request: nothing is written.
C7_Answers ==
    \A q \in Slots :
        LET ctx == reqs[q]
        IN  SingleAnswered(ctx) =>
                /\ ~MatrixAllows(ctx.user, ctx.route) =>
                      /\ ctx.status = 403
                      /\ ctx.message = "Insufficient permissions"
                      /\ ctx.id = 0 /\ ctx.record = NoRecord /\ ctx.existing = NoRow
                      /\ ctx.trail = <<"authenticate", "requirePermission">>
                      /\ NothingWritten(ctx)
                /\ MatrixAllows(ctx.user, ctx.route) => ctx.id # 0
                /\ ctx.status \in {403, 404} => NothingWritten(ctx)

\* The step that looks the record up, for a permitted request: a missing
\* record gives 404; a record the user fails canAccessRecord on gives 403; the
\* step itself changes no table.
C7_Lookup ==
    \A q \in Slots :
        (reqs[q].pc = "requireRecordAccess" /\ reqs'[q] # reqs[q]) =>
            LET ctx == reqs'[q]
                row == TableOf(ctx.route.resourceType)[ctx.id]
            IN  /\ MatrixAllows(ctx.user, ctx.route)
                /\ ctx.id \in RowIds
                /\ row = NoRow => ctx.pc = "done" /\ ctx.status = 404
                /\ (row # NoRow /\ ~canAccessRecord(ctx.user, AccessColumns(row)))
                      => ctx.pc = "done" /\ ctx.status = 403
                /\ (row # NoRow /\ canAccessRecord(ctx.user, AccessColumns(row)))
                      => ctx.pc = "controller"
                /\ UNCHANGED <<customers, leads, nextId, activities>>

\* C7: on a single-record endpoint the outcome is decided in the order
\* permission, existence, access: a user without the permission gets 403
\* whether or not the record exists and the record is not read; otherwise a
\* missing record gives 404; otherwise a record that fails canAccessRecord
\* gives 403; in all three cases the store is unchanged.
C7_DecisionOrder == []C7_Answers /\ [][C7_Lookup]_vars

\* a permitted user asked for an id of no row and got 404
C7_Witness ==
    \E q \in Slots :
        /\ SingleAnswered(reqs[q])
        /\ MatrixAllows(reqs[q].user, reqs[q].route)
        /\ reqs[q].user.role = "sales_rep"
        /\ reqs[q].id # 0
        /\ TableOf(reqs[q].route.resourceType)[reqs[q].id] = NoRow
        /\ reqs[q].status = 404
        /\ nextId > 0

(* C8 *)

AssignedNotOwned(user, record) ==
    record # NoRecord /\ record.assignedTo = user.id /\ record.ownerId # user.id

\* C8: a record assigned to a sales rep and owned by someone else is reachable
\* by id (the read succeeds, the update of a valid body succeeds) and is in no
\* list the rep receives.
C8_AssignedById ==
    \A q \in Slots :
        LET ctx == reqs[q]
            table == TableOf(ctx.route.resourceType)
        IN  ctx.user.role = "sales_rep" =>
                /\ (Answered(ctx, {"get"}) /\ ctx.id # 0 /\ table[ctx.id] # NoRow
                        /\ AssignedNotOwned(ctx.user, AccessColumns(table[ctx.id])))
                      => ctx.status = 200 /\ ctx.data = {ctx.id}
                /\ (Answered(ctx, {"update"}) /\ AssignedNotOwned(ctx.user, ctx.record))
                      => /\ ctx.existing = NoRow => ctx.status = 400 /\ ~ctx.body.valid
                         /\ ctx.existing # NoRow =>
                               /\ AccessColumns(ctx.existing) = ctx.record
                               /\ ctx.body.valid
                               /\ ctx.status = 200
                               /\ ctx.written = 1
                               /\ ctx.data = {ctx.id}
                               /\ table[ctx.id].status = ctx.updateData.status
                               /\ table[ctx.id].assignedTo = ctx.updateData.assignedTo
                /\ (Answered(ctx, ListKinds) /\ ctx.status = 200)
                      => \A id \in ctx.data :
                            ~AssignedNotOwned(ctx.user, AccessColumns(table[id]))

\* a rep updated a customer that an admin owns and assigned to the rep
C8_Witness ==
    \E q \in Slots :
        /\ Answered(reqs[q], {"update"})
        /\ reqs[q].user.role = "sales_rep"
        /\ AssignedNotOwned(reqs[q].user, reqs[q].record)
        /\ reqs[q].status = 200
        /\ reqs[q].written = 1

\* the rep's list is answered while such a record is in the table
C8_ListWitness ==
    \E q \in Slots, id \in RowIds :
        /\ Answered(reqs[q], ListKinds)
        /\ reqs[q].status = 200
        /\ reqs[q].user.role = "sales_rep"
        /\ TableOf(reqs[q].route.resourceType)[id] # NoRow
        /\ AssignedNotOwned(reqs[q].user, AccessColumns(TableOf(reqs[q].route.resourceType)[id]))
        /\ id \notin reqs[q].data

(* C9 *)

MutationKinds == {"create", "update", "delete"}

\* the steps a mutation request has entered when it reaches its controller
StepsBeforeWrite(kind) ==
    IF kind = "create" THEN <<"authenticate", "requirePermission", "controller">>
    ELSE <<"authenticate", "requirePermission", "requireRecordAccess", "controller">>

\* authentication succeeded, the permission check passed and, for update and
\* delete, the record access check passed, in this order, and no step rejected
Authorized(ctx) ==
    /\ ctx.route.kind \in MutationKinds
    /\ ctx.header.kind = "valid"
    /\ ctx.user = Principal(users[ctx.header.userId])
    /\ users[ctx.header.userId].isActive
    /\ MatrixAllows(ctx.user, ctx.route)
    /\ ctx.route.kind \in {"update", "delete"} =>
          /\ ctx.record # NoRecord
          /\ \/ ctx.user.role = "admin"
             \/ ctx.user.role = "manager" /\ ctx.record.teamId = ctx.user.teamId
             \/ ctx.record.ownerId = ctx.user.id
             \/ ctx.record.assignedTo = ctx.user.id
    /\ ctx.trail = StepsBeforeWrite(ctx.route.kind)
    /\ ctx.status = 0

\* a step that writes a customer, lead or activity row
WritesRow ==
    \/ customers' # customers
    \/ leads' # leads
    \/ Len(activities') > Len(activities)

\* every writing step is the step of an authorized request
C9_WritesAuthorized ==
    WritesRow => \E q \in Slots : reqs'[q] # reqs[q] /\ Authorized(reqs[q])

\* an answered request runs no further step
C9_AnsweredStops ==
    \A q \in Slots :
        (reqs[q].pc = "done" /\ reqs'[q] # reqs[q]) => reqs'[q] = IdleReq /\ ~WritesRow

\* a rejected request stopped at the step that rejected it and wrote nothing
C9_Rejected ==
    \A q \in Slots :
        LET ctx == reqs[q]
        IN  /\ (ctx.pc # "idle" /\ ctx.status = 401) =>
                  ctx.pc = "done" /\ ctx.trail = <<"authenticate">> /\ NothingWritten(ctx)
            /\ (ctx.pc # "idle" /\ ctx.message = "Insufficient permissions") =>
                  /\ ctx.pc = "done"
                  /\ ctx.trail = <<"authenticate", "requirePermission">>
                  /\ NothingWritten(ctx)
            /\ (ctx.pc # "idle" /\ ctx.trail # <<>>
                    /\ ctx.trail[Len(ctx.trail)] = "requireRecordAccess"
                    /\ ctx.pc # "requireRecordAccess") =>
                  /\ ctx.pc = "done"
                  /\ ctx.status \in {403, 404}
                  /\ NothingWritten(ctx)
            /\ (ctx.written > 0 \/ ctx.logged > 0) =>
                  /\ ctx.route.kind \in MutationKinds
                  /\ ctx.trail = StepsBeforeWrite(ctx.route.kind)
                  /\ MatrixAllows(ctx.user, ctx.route)

\* C9: every mutation (create, update, delete of a customer or lead) is
\* performed only after authentication succeeded, the permission check passed
\* and, for update and delete, the record access check passed, in this order;
\* once a step rejects, no later step runs and no customer, lead or activity
\* row is written.
C9_MutationPipeline ==
    []C9_Rejected /\ [][C9_WritesAuthorized /\ C9_AnsweredStops]_vars

\* a delete went through all three checks and removed the row
C9_Witness ==
    \E q \in Slots :
        /\ Answered(reqs[q], {"delete"})
        /\ reqs[q].status = 200
        /\ reqs[q].written = 1
        /\ reqs[q].logged = 1
        /\ reqs[q].user.role = "manager"
        /\ TableOf(reqs[q].route.resourceType)[reqs[q].id] = NoRow

(* C10 *)

\* a login that passed validation, for the email of an account, made less
\* than LockTime after the wrong password that completed (or went past) a
\* streak of MaxLoginAttempts wrong passwords on the account
LoginInLockWindow(ctx) ==
    /\ ctx.route.kind = "login"
    /\ ctx.pc # "idle"
    /\ ctx.login.password # ""
    /\ ctx.user # NoUser
    /\ InLockWindow(ctx.streak, ctx.checkedAt)

\* the login is answered 423, without tokens, and nothing else is done for it
AnsweredLocked(ctx) ==
    /\ ctx.pc = "done"
    /\ ctx.status = 423
    /\ ctx.message # "Invalid credentials"
    /\ ctx.accessToken = NoToken /\ ctx.refreshToken = NoToken
    /\ ctx.trail = <<"login">>
    /\ NothingWritten(ctx)

LoginSucceeded(ctx) ==
    /\ ctx.route.kind = "login"
    /\ ctx.pc = "done"
    /\ ctx.status = 200

NoRequestInFlight == \A q \in Slots : reqs[q].pc \in {"idle", "done"}

\* C11: after every successful login the account's failure counter is 0 and
\* its lockUntil is cleared, so failures made before a successful login never
\* count toward a later lockout: between requests the counter of an active
\* account is the number of wrong passwords since the last successful login
\* (as long as that number is below the threshold).
C11_ResetOnSuccess ==
    /\ \A q \in Slots :
          LoginSucceeded(reqs[q]) =>
              /\ users[reqs[q].user.id].loginAttempts = 0
              /\ users[reqs[q].user.id].lockUntil = NullTime
              /\ loginHist[reqs[q].user.id] = NoStreak
    /\ NoRequestInFlight =>
          \A id \in UserIds :
              (users[id].isActive /\ loginHist[id].wrong < MaxLoginAttempts)
                  => /\ users[id].loginAttempts = loginHist[id].wrong
                     /\ users[id].lockUntil = NullTime

\* a successful login of an account that had failures before it
C11_Witness ==
    \E q \in Slots :
        /\ LoginSucceeded(reqs[q])
        /\ reqs[q].streak.wrong > 0
        /\ reqs[q].streak.wrong < MaxLoginAttempts
        /\ users[reqs[q].user.id].loginAttempts = 0

(* C12 *)

\* the login step of a request for an active account whose lock has run out
\* sends the right password on to the reset
C12_UnlockedAfterWindow ==
    \A q \in Slots :
        (reqs[q].pc = "idle" /\ reqs'[q].pc # "idle" /\ reqs'[q].route.kind = "login"
            /\ reqs'[q].user # NoUser /\ reqs'[q].login.password = "right") =>
            LET user == users[reqs'[q].user.id]
            IN  (user.isActive /\ user.lockUntil # NullTime /\ user.lockUntil <= now)
                    => reqs'[q].pc = "resetLoginAttempts"

\* the lock set by a failure ends LockTime after that failure at the latest
C12_LockIsBounded ==
    \A id \in UserIds :
        users'[id].lockUntil # users[id].lockUntil =>
            \/ users'[id].lockUntil = NullTime
            \/ users'[id].lockUntil <= now + LockTime

\* a login that went on to the reset is answered 200 with both tokens, and its
\* refresh token is persisted
C12_ResetLeadsToTokens ==
    \A q \in Slots :
        LET ctx == reqs[q]
        IN  (ctx.route.kind = "login" /\ ctx.pc = "done" /\ Len(ctx.trail) > 1
                /\ ctx.trail[2] = "resetLoginAttempts") =>
                /\ ctx.status = 200
                /\ ctx.accessToken = Sign(ctx.user.id, ctx.accessToken.iat, AccessTtl)
                /\ ctx.refreshToken = Sign(ctx.user.id, ctx.refreshToken.iat, RefreshTtl)
                /\ ctx.accessToken.iat >= ctx.checkedAt
                /\ ctx.written = 1

\* C12: lockout is temporary: for an active account that was locked, once
\* lockTime has passed since the failure that set lockUntil, a login with the
\* right password succeeds and returns tokens, nothing else having been done
\* to the account.
C12_LockoutTemporary ==
    []C12_ResetLeadsToTokens /\ [][C12_UnlockedAfterWindow /\ C12_LockIsBounded]_vars

\* the right password is accepted from an account that was locked before
C12_Witness ==
    \E q \in Slots :
        /\ LoginSucceeded(reqs[q])
        /\ reqs[q].login.password = "right"
        /\ reqs[q].streak.wrong = MaxLoginAttempts
        /\ reqs[q].checkedAt >= reqs[q].streak.at + LockTime

(* C17 *)

\* what authenticate answers, by the token in the header
C17_Answers ==
    \A q \in Slots :
        LET ctx == reqs[q]
        IN  (ctx.pc # "idle" /\ ctx.route \in Routes) =>
                /\ ctx.header.kind = "expired" =>
                      /\ ctx.pc = "done" /\ ctx.status = 401
                      /\ ctx.code = "TOKEN_EXPIRED"
                /\ ctx.header.kind = "invalid" =>
                      /\ ctx.pc = "done" /\ ctx.status = 401
                      /\ ctx.code # "TOKEN_EXPIRED"
                /\ ctx.code = "TOKEN_EXPIRED" => ctx.header.kind = "expired"
                /\ (/\ ctx.header.kind = "valid"
                    /\ \/ ctx.header.userId \notin UserIds
                       \/ ~users[ctx.header.userId].isActive) =>
                      /\ ctx.pc = "done" /\ ctx.status = 401
                      /\ ctx.code # "TOKEN_EXPIRED"
                /\ ctx.header.kind # "valid" => ctx.user = NoUser
                /\ ctx.user = NoUser =>
                      /\ ctx.pc = "done"
                      /\ ctx.trail = <<"authenticate">>
                      /\ NothingWritten(ctx)
                /\ ctx.user # NoUser =>
                      /\ ctx.header.kind = "valid"
                      /\ ctx.header.userId \in UserIds
                      /\ ctx.user = Principal(users[ctx.header.userId])
                      /\ users[ctx.header.userId].isActive

\* C17: authenticate never conflates its error kinds: a correctly signed but
\* expired access token gives 401 with code TOKEN_EXPIRED, a malformed or
\* wrongly signed token gives 401 without that code, and a valid token whose
\* user is missing or inactive gives no principal, so that the request never
\* reaches a controller.
C17_ErrorKinds == C17_Answers

\* an expired token was answered with the code that tells the client to refresh
C17_Witness ==
    \E q \in Slots :
        /\ reqs[q].pc = "done"
        /\ reqs[q].header.kind = "expired"
        /\ reqs[q].code = "TOKEN_EXPIRED"
        /\ reqs[q].status = 401

\* a token of a user that is not in the table was turned away
C17_MissingUserWitness ==
    \E q \in Slots :
        /\ reqs[q].pc = "done"
        /\ reqs[q].header = [kind |-> "valid", userId |-> MissingUserId]
        /\ reqs[q].status = 401
        /\ reqs[q].user = NoUser

-----------------------------------------------------------------------------
(* refresh tokens *)

\* the token is in a row of refresh_tokens
Persisted(token) == \E i \in DOMAIN refreshTokens : refreshTokens[i].token = token

\* the token is in a row a refresh accepts at this time
PersistedValid(token) == StoredToken(refreshTokens, token, now) # {}

\* the refresh has answered 200 with its tokens
Refreshed(ctx) == ctx.route.kind = "refresh" /\ ctx.pc = "done" /\ ctx.status = 200

\* C13: a refresh token is single-use: once a refresh with it has succeeded
\* the token is no longer persisted
C13_SingleUse ==
    \A q \in Slots : Refreshed(reqs[q]) => ~Persisted(reqs[q].presented)

\* the refresh has generated the replacement of the presented token
Rotating(ctx) == ctx.route.kind = "refresh" /\ ctx.refreshToken # NoToken

\* C14: in every state of a refresh, crashed or not, the presented token and
\* its replacement are never both persisted as valid
C14_NeverBothValid ==
    \A q \in Slots :
        Rotating(reqs[q]) =>
            ~(PersistedValid(reqs[q].presented) /\ PersistedValid(reqs[q].refreshToken))

\* the step is the first one of a refresh whose token is not verified or is
\* not persisted for its user, or the user lookup of a refresh whose user is
\* not active
RefreshFailureBranch(a, b) ==
    \/ /\ a.pc = "idle"
       /\ b.pc # "idle"
       /\ b.route.kind = "refresh"
       /\ ~VerifyRefreshToken(b.presented, now) \/ ~PersistedValid(b.presented)
    \/ /\ a.pc = "refreshUser"
       /\ b.pc \notin {"refreshUser", "crashed"}
       /\ ~users[a.presented.userId].isActive

\* a failure branch of refresh answers 401 without tokens and leaves every
\* refresh-token row as it was
C15_Fails ==
    \A q \in Slots :
        RefreshFailureBranch(reqs[q], reqs'[q]) =>
            /\ reqs'[q].pc = "done"
            /\ reqs'[q].status = 401
            /\ reqs'[q].accessToken = NoToken
            /\ reqs'[q].refreshToken = NoToken
            /\ refreshTokens' = refreshTokens

\* a refresh that is not answered 200 has returned no token and written no row
C15_NoTokens ==
    \A q \in Slots :
        (reqs[q].route.kind = "refresh" /\ reqs[q].pc = "done" /\ reqs[q].status # 200) =>
            /\ reqs[q].status = 401
            /\ reqs[q].accessToken = NoToken
            /\ reqs[q].refreshToken = NoToken
            /\ reqs[q].written = 0

\* C15: refresh fails with 401 whenever the presented token fails
\* verification, is not persisted for the user of its claims, or that user is
\* inactive; the failure branches delete and insert no refresh-token row and
\* return no token
C15_FailureBranches == []C15_NoTokens /\ [][C15_Fails]_vars

\* a refresh of a persisted token was refused because its user is inactive
C15_Witness ==
    \E q \in Slots :
        /\ reqs[q].route.kind = "refresh"
        /\ reqs[q].pc = "done"
        /\ reqs[q].message = "User not found or inactive"
        /\ PersistedValid(reqs[q].presented)

\* a refresh of an expired token was refused while a row of it is kept
C15_ExpiredWitness ==
    \E q \in Slots :
        /\ reqs[q].route.kind = "refresh"
        /\ reqs[q].pc = "done"
        /\ reqs[q].message = "Invalid refresh token"
        /\ Persisted(reqs[q].presented)

\* the logout has passed its DELETE
LoggedOut(ctx) ==
    ctx.route.kind = "logout" /\ ctx.pc \in {"logActivity", "done"} /\ ctx.presented # NoToken

\* a logout is answered 200, and once its DELETE is done its token is in no row
C16_Revoked ==
    \A q \in Slots :
        /\ LoggedOut(reqs[q]) => ~Persisted(reqs[q].presented)
        /\ (reqs[q].route.kind = "logout" /\ reqs[q].pc = "done") =>
               /\ reqs[q].status = 200
               /\ reqs[q].message = "Logout successful"

\* the DELETE of a logout leaves rows that a second logout of the same token
\* would not change, and changes no row when the token is not persisted
C16_SecondLogout ==
    \A q \in Slots :
        (reqs[q].pc = "logout" /\ LoggedOut(reqs'[q])) =>
            /\ removeRefreshToken(refreshTokens', reqs[q].presented) = refreshTokens'
            /\ ~Persisted(reqs[q].presented) => refreshTokens' = refreshTokens

\* a refresh with a token that is in no row is answered 401 without tokens
C16_RefreshAfterLogout ==
    \A q \in Slots :
        (/\ reqs[q].pc = "idle"
         /\ reqs'[q].pc # "idle"
         /\ reqs'[q].route.kind = "refresh"
         /\ ~Persisted(reqs'[q].presented)) =>
            /\ reqs'[q].pc = "done"
            /\ reqs'[q].status = 401
            /\ reqs'[q].refreshToken = NoToken

C16_GoneWitness ==
    \E q \in Slots :
        /\ reqs[q].route.kind = "logout"
        /\ reqs[q].pc = "done"
        /\ reqs[q].status = 200
        /\ reqs[q].presented \notin {NoToken, BadToken}
        /\ reqs[q].written = 0

-----------------------------------------------------------------------------
(* login answers *)

\* what the client receives
Response(ctx) ==
    [status |-> ctx.status, message |-> ctx.message, code |-> ctx.code,
     accessToken |-> ctx.accessToken, refreshToken |-> ctx.refreshToken]

\* the answer to a login with an email of no user
UnknownEmailResponse ==
    [status |-> 401, message |-> "Invalid credentials", code |-> Null,
     accessToken |-> NoToken, refreshToken |-> NoToken]

\* a validated login with an email of no user
UnknownEmail(ctx) ==
    /\ ctx.route.kind = "login"
    /\ ctx.login.password # ""
    /\ UserByEmail(ctx.login.email) = Null

\* a login that went through bcrypt.compare with a password that does not match
WrongPassword(ctx) ==
    /\ ctx.route.kind = "login"
    /\ \E i \in DOMAIN ctx.trail : ctx.trail[i] = "incrementLoginAttempts"

\* both kinds of login are answered with the same status and body
C18_SameAnswer ==
    \A q \in Slots :
        (reqs[q].pc = "done" /\ (UnknownEmail(reqs[q]) \/ WrongPassword(reqs[q]))) =>
            Response(reqs[q]) = UnknownEmailResponse

\* a login with a wrong password for a known, active, unlocked account goes
\* through bcrypt.compare to incrementLoginAttempts
C18_WrongPasswordPath ==
    \A q \in Slots :
        LET a == reqs[q]
            b == reqs'[q]
            id == UserByEmail(b.login.email)
        IN  (/\ a.pc = "idle"
             /\ b.pc # "idle"
             /\ b.route.kind = "login"
             /\ id # Null) =>
                ((/\ b.login.password \notin {"", users[id].password}
                  /\ users[id].isActive
                  /\ ~isAccountLocked(users[id], now)) <=> WrongPassword(b))

\* C18: a login for an unknown email and a login with a wrong password for a
\* known, active, unlocked account get the same status 401 and the same body
C18_NoEnumeration == []C18_SameAnswer /\ [][C18_WrongPasswordPath]_vars

\* a wrong password for a known, active, unlocked account was answered
C18_Witness ==
    \E q \in Slots :
        /\ reqs[q].pc = "done"
        /\ WrongPassword(reqs[q])
        /\ reqs[q].status = 401

\* a login for an unknown email was answered
C18_UnknownWitness ==
    \E q \in Slots : reqs[q].pc = "done" /\ UnknownEmail(reqs[q]) /\ reqs[q].status = 401

-----------------------------------------------------------------------------
(* audit trail *)

\* the activities of the given type for the row, attributed to the user
ActivitiesOf(type, resourceType, resourceId, userId) ==
    {i \in DOMAIN activities :
        /\ activities[i].type = type
        /\ activities[i].resourceType = resourceType
        /\ activities[i].resourceId = resourceId
        /\ activities[i].userId = userId}

\* the request has written the row and goes on to its auditRecordChange
WritesAudited(ctx, resourceType, id) ==
    /\ ctx.pc = "audit"
    /\ ctx.route.kind \in MutationKinds
    /\ ctx.route.resourceType = resourceType
    /\ ctx.id = id

\* a create, update or delete that is answered with success has left one
\* activity of its type for its row and its user
C19_Logged ==
    \A q \in Slots :
        (Answered(reqs[q], MutationKinds) /\ reqs[q].status \in {200, 201}) =>
            Cardinality(ActivitiesOf(reqs[q].route.kind, reqs[q].route.resourceType,
                                     reqs[q].id, reqs[q].user.id)) = 1

\* a step that creates, changes or removes a customer or lead row is the write
\* of a request for that row, which goes on to its auditRecordChange
C19_OnlyAuditedRows ==
    \A id \in RowIds :
        /\ customers'[id] # customers[id] =>
              \E q \in Slots : WritesAudited(reqs'[q], "customer", id)
        /\ leads'[id] # leads[id] =>
              \E q \in Slots : WritesAudited(reqs'[q], "lead", id)

\* C19: every successful create, update or delete of a customer or lead row
\* is followed by one Activity of the matching type for that row and the
\* acting user, and no customer or lead row is created, changed or removed
\* without such an Activity
C19_EveryMutationLogged == []C19_Logged /\ [][C19_OnlyAuditedRows]_vars

\* the update changes the status from active to inactive and nothing else is
\* in its body
StatusOnlyUpdate ==
    /\ call.fn = "updateCustomer"
    /\ call.existing.status = "active"
    /\ call.body = [name |-> Null, status |-> "inactive", notes |-> Null, assignedTo |-> Null]

-----------------------------------------------------------------------------
(* referential integrity *)

\* the leads of the customer
LeadsOf(customerId) == {id \in RowIds : leads[id] # NoRow /\ leads[id].customerId = customerId}

\* the DELETE of an existing customer removes every lead of the customer
C22_CascadeStep ==
    \A q \in Slots :
        (/\ At(q, "delete", "customer", "write")
         /\ reqs'[q].pc = "audit"
         /\ SelectById(customers, reqs[q].id) # NoRow) =>
            \A id \in LeadsOf(reqs[q].id) : leads'[id] = NoRow

\* after a successful delete of a customer no lead of it is left; a lead that
\* is gone is answered 404 to whoever passes the checks before the lookup and
\* 200 to nobody, and is in no list
C22_Gone ==
    \A q \in Slots :
        LET ctx == reqs[q]
        IN  /\ (Answered(ctx, {"delete"}) /\ ctx.route.resourceType = "customer"
                   /\ ctx.status = 200) => LeadsOf(ctx.id) = {}
            /\ (Answered(ctx, {"get"}) /\ ctx.route.resourceType = "lead"
                   /\ SelectById(leads, ctx.id) = NoRow) =>
                  /\ ctx.status \in {401, 403, 404}
                  /\ ctx.data = {}
                  /\ (\E i \in DOMAIN ctx.trail : ctx.trail[i] = "requireRecordAccess") =>
                        ctx.status = 404
            /\ (Answered(ctx, {"list", "listByCustomer"}) /\ ctx.route.resourceType = "lead") =>
                  \A id \in ctx.data : leads[id] # NoRow

\* C22: after a successful DELETE of a customer every lead whose customerId
\* was that customer is gone: GET /leads/:id answers not found for it and it
\* appears in no list
C22_LeadsGone == []C22_Gone /\ [][C22_CascadeStep]_vars

\* a customer that had a lead was deleted with success
C22_Witness ==
    \E q \in Slots :
        /\ Answered(reqs[q], {"delete"})
        /\ reqs[q].route.resourceType = "customer"
        /\ reqs[q].status = 200
        /\ reqs[q].cascaded # {}

\* every lead belongs to a customer that exists
C23_Integrity ==
    \A id \in RowIds :
        leads[id] # NoRow => SelectById(customers, leads[id].customerId) # NoRow

\* the INSERT of a lead for a customer id of no row fails and stores no lead
C23_CreateFails ==
    \A q \in Slots :
        (/\ At(q, "create", "lead", "controller")
         /\ reqs'[q].pc # "controller"
         /\ reqs'[q].body.valid
         /\ SelectById(customers, reqs'[q].body.customerId) = NoRow) =>
            /\ reqs'[q].pc = "done"
            /\ reqs'[q].status = 500
            /\ leads' = leads

\* C23: in every reachable state every lead's customerId refers to a customer
\* that exists, and creating a lead for a customer id that does not exist
\* fails and stores no lead
C23_LeadsHaveCustomer == []C23_Integrity /\ [][C23_CreateFails]_vars

\* a lead for a customer of no row was refused while the table had room
C23_Witness ==
    \E q \in Slots :
        /\ Answered(reqs[q], {"create"})
        /\ reqs[q].route.resourceType = "lead"
        /\ reqs[q].body.valid
        /\ SelectById(customers, reqs[q].body.customerId) = NoRow
        /\ reqs[q].status = 500
        /\ nextId < MaxRows

\* a lead of an existing customer is stored
C23_LeadWitness == \E id \in RowIds : leads[id] # NoRow

-----------------------------------------------------------------------------
(* ownership columns *)

\* the columns an update must leave alone
Ownership(row) == [ownerId |-> row.ownerId, teamId |-> row.teamId, customerId |-> row.customerId]

\* a row that appears belongs to the principal of the request that created it
\* and to the principal's team; a row that stays keeps its ownership columns
C25_OwnershipStep ==
    \A id \in RowIds :
        \A resourceType \in {"customer", "lead"} :
            LET old == TableOf(resourceType)[id]
                new == IF resourceType = "customer" THEN customers'[id] ELSE leads'[id]
            IN  /\ (old = NoRow /\ new # NoRow) =>
                      \E q \in Slots :
                          /\ At(q, "create", resourceType, "controller")
                          /\ reqs'[q].id = id
                          /\ new.ownerId = reqs[q].user.id
                          /\ new.teamId = reqs[q].user.teamId
                /\ (old # NoRow /\ new # NoRow) => Ownership(new) = Ownership(old)

\* C25: a created customer or lead has the creating principal's id as ownerId
\* and the creator's teamId as teamId, whatever the body contains; an update
\* never changes ownerId, teamId or a lead's customerId, only assignedTo is
\* reassigned
C25_OwnershipFixed == [][C25_OwnershipStep]_vars

\* a row was reassigned by an update of a user who is not its owner
C25_Witness ==
    \E q \in Slots :
        /\ Answered(reqs[q], {"update"})
        /\ reqs[q].status = 200
        /\ reqs[q].existing.assignedTo # reqs[q].updateData.assignedTo
        /\ reqs[q].existing.ownerId # reqs[q].user.id
        /\ SelectById(TableOf(reqs[q].route.resourceType), reqs[q].id).ownerId
               = reqs[q].existing.ownerId

\* a row was created with an assignee other than its creator
C25_CreateWitness ==
    \E q \in Slots :
        /\ Answered(reqs[q], {"create"})
        /\ reqs[q].status = 201
        /\ reqs[q].updateData.assignedTo # reqs[q].user.id
        /\ reqs[q].updateData.ownerId = reqs[q].user.id

\* C28: a delete request removes only rows its principal may access: every
\* lead removed through the cascade of DELETE /customers/:id satisfies
\* canAccessRecord for the principal at the time of the delete
C28_CascadeWithinAccess ==
    [][\A q \in Slots :
           (/\ At(q, "delete", "customer", "write")
            /\ reqs'[q].pc = "audit") =>
               \A id \in RowIds :
                   (leads[id] # NoRow /\ leads'[id] = NoRow) =>
                       canAccessRecord(reqs[q].user, AccessColumns(leads[id]))]_vars

-----------------------------------------------------------------------------
(* roles *)

\* every stored role is one of the three roles
C24_RolesValid == \A id \in DOMAIN users : users[id].role \in Roles

\* a step keeps the role of every user; a user that appears is stored by a
\* register, as an active sales_rep
C24_RoleStep ==
    \A id \in DOMAIN users' :
        IF id \in DOMAIN users THEN users'[id].role = users[id].role
        ELSE /\ users'[id].role = "sales_rep"
             /\ users'[id].isActive
             /\ \E q \in Slots : reqs[q].route.kind = "register" /\ reqs'[q].user.id = id

\* C24: register always stores the new user as an active sales_rep, whatever
\* the body contains; no call of register, login, refresh or logout changes a
\* user's role, and every stored role is admin, manager or sales_rep
C24_RolesFixed == []C24_RolesValid /\ [][C24_RoleStep]_vars

\* a registration whose body asked for the role admin was answered 201
C24_Witness ==
    \E q \in Slots :
        /\ reqs[q].route.kind = "register"
        /\ reqs[q].pc = "done"
        /\ reqs[q].status = 201
        /\ reqs[q].login.role = "admin"
        /\ users[reqs[q].user.id].role = "sales_rep"
        /\ users[reqs[q].user.id].isActive

-----------------------------------------------------------------------------
(* failing audit writes *)

\* the request has passed its audit write and no activity was stored for it
AuditLost(ctx) ==
    /\ ctx.pc \in {"fetch", "done"}
    /\ ctx.logged = 0
    /\ \/ ctx.route.kind \in MutationKinds /\ ctx.written > 0
       \/ ctx.route.kind \in {"login", "register"} /\ ctx.refreshToken # NoToken
       \/ ctx.route.kind = "logout" /\ ctx.user # NoUser

\* the change the operation made is in the store
ChangeKept(ctx) ==
    LET row == SelectById(TableOf(ctx.route.resourceType), ctx.id)
    IN  CASE ctx.route.kind = "create" -> row = ctx.updateData
          [] ctx.route.kind = "update" ->
                 /\ row.status = ctx.updateData.status
                 /\ row.assignedTo = ctx.updateData.assignedTo
          [] ctx.route.kind = "delete" -> row = NoRow
          [] ctx.route.kind = "login" ->
                 Persisted(ctx.refreshToken) /\ users[ctx.user.id].lastLoginAt # NullTime
          [] ctx.route.kind = "register" ->
                 Persisted(ctx.refreshToken) /\ ctx.user.id \in DOMAIN users
          [] OTHER -> ctx.presented # NoToken => ~Persisted(ctx.presented)

\* an operation whose audit record was lost is answered with success and its
\* change is kept
C21_Succeeds ==
    \A q \in Slots :
        AuditLost(reqs[q]) =>
            /\ ChangeKept(reqs[q])
            /\ reqs[q].pc = "done" => reqs[q].status \in {200, 201}

\* the step of a failed audit write changes no table and goes on as the
\* stored one does
C21_FailureStep ==
    \A q \in Slots :
        (/\ reqs[q].pc \in {"audit", "logActivity"}
         /\ reqs'[q].pc # reqs[q].pc
         /\ activities' = activities) =>
            /\ <<users, customers, leads, refreshTokens>>' = <<users, customers, leads, refreshTokens>>
            /\ reqs'[q].pc \in {"fetch", "done"}
            /\ reqs'[q].pc = "done" => reqs'[q].status \in {200, 201}

\* C21: when the write of an audit record fails, the operation that caused it
\* still reports success and the store change it made is kept; the failure is
\* never surfaced to the caller
C21_AuditFailureSwallowed == []C21_Succeeds /\ [][C21_FailureStep]_vars

\* a delete whose audit record was lost was answered with success
C21_Witness ==
    \E q \in Slots :
        /\ Answered(reqs[q], {"delete"})
        /\ AuditLost(reqs[q])
        /\ reqs[q].status = 200

\* a login whose audit record was lost was answered with its tokens
C21_LoginWitness ==
    \E q \in Slots :
        /\ reqs[q].route.kind = "login"
        /\ reqs[q].pc = "done"
        /\ AuditLost(reqs[q])
        /\ reqs[q].status = 200

-----------------------------------------------------------------------------
(* locked accounts *)

\* the step hands new tokens to the request
IssuesTokens(q) == reqs[q].accessToken = NoToken /\ reqs'[q].accessToken # NoToken

\* C30: while an account's lockUntil is in the future no endpoint issues new
\* tokens for the account: neither login nor a refresh with a token that was
\* persisted before the lock
C30_NoTokensWhileLocked ==
    [][\A q \in Slots :
           IssuesTokens(q) => ~isAccountLocked(users[reqs'[q].user.id], now)]_vars

-----------------------------------------------------------------------------
(* interleaved logins *)

\* no wrong-password attempt is lost: once the requests have finished, the
\* counter of an account is at least the number of wrong passwords since the
\* last login with the right one
C27_NotLost ==
    NoRequestInFlight =>
        \A id \in UserIds :
            (users[id].isActive /\ loginHist[id].wrong < MaxLoginAttempts) =>
                users[id].loginAttempts >= loginHist[id].wrong

\* no attempt is misapplied: once the requests have finished, an account
\* whose last attempt had the right password is not locked and its counter
\* is not above 1
C27_NotMisapplied ==
    NoRequestInFlight =>
        \A id \in UserIds :
            (users[id].isActive /\ loginHist[id] = NoStreak) =>
                /\ users[id].loginAttempts <= 1
                /\ users[id].lockUntil = NullTime

\* C27: under interleaved logins for one account the failure counter is never
\* lost or misapplied: k wrong passwords without a successful login in between
\* leave the counter at k, and a wrong password that overlaps a successful
\* login leaves the account unlocked and the counter at 1 at most
C27_CounterUnderInterleaving == C27_NotLost /\ C27_NotMisapplied

-----------------------------------------------------------------------------
(* interleaved refreshes *)

\* the two requests are refreshes answered 200 for one presented token that
\* neither of them persisted again as its own replacement
BothRefreshed(a, b) ==
    /\ Refreshed(a)
    /\ Refreshed(b)
    /\ a.presented = b.presented
    /\ a.refreshToken # a.presented
    /\ b.refreshToken # b.presented

\* C26: of two interleaved refreshes presenting the same valid refresh token
\* at most one succeeds, so that one token never has two persisted valid
\* successors
C26_AtMostOneSucceeds ==
    \A q1, q2 \in Slots : q1 # q2 => ~BothRefreshed(reqs[q1], reqs[q2])

-----------------------------------------------------------------------------
(* interleaved mutations *)

\* the request executes the UPDATE or DELETE of its record in this step
Mutates(q) ==
    /\ reqs[q].pc = "write"
    /\ reqs[q].route.kind \in {"update", "delete"}
    /\ reqs'[q].pc = "audit"

\* the record of the request as it is in the store
RecordNow(q) == SelectById(TableOf(reqs[q].route.resourceType), reqs[q].id)

\* C29: when the UPDATE or DELETE of a customer or lead executes, the record
\* exists and canAccessRecord holds of the principal and the record's ownerId,
\* teamId and assignedTo as they are then, whatever other requests did since
\* the access check
C29_AccessAtMutation ==
    [][\A q \in Slots :
          Mutates(q) =>
              /\ RecordNow(q) # NoRow
              /\ canAccessRecord(reqs[q].user, AccessColumns(RecordNow(q)))]_vars

=============================================================================
